---------------------------- MODULE Spec2Model ----------------------------
(***************************************************************************)
(* A model of tacozip (src/src/tacozip.c): a STORE-only ZIP64 writer that  *)
(* puts a fixed-size "TACO Ghost" local file header at byte 0 of the       *)
(* archive, and reads and patches the ghost's payload in place.            *)
(*                                                                         *)
(* Files are sequences of bytes; byte offset k of a file is element k+1.   *)
(* TLC's integers are 32 bits wide, so a C integer wider than 16 bits is   *)
(* kept as its little-endian 16-bit limbs: a uint32_t is <<lo, hi>>, a     *)
(* uint64_t is <<w0, w1, w2, w3>> with value w0 + 2^16 w1 + 2^32 w2 +      *)
(* 2^48 w3.  File positions stay plain naturals (they are far below 2^31   *)
(* here) and are widened with U64 where the code casts them to uint64_t.   *)
(***************************************************************************)
EXTENDS Integers, Sequences, FiniteSets, TLC

(* ------------------------------ bounds --------------------------------- *)
\* Largest num_files a caller passes to create.
MaxFiles == 2
\* The copy buffer of add_file, in bytes.  The source's default is 1 MiB and
\* the macro is a build-time tunable (#ifndef TACOZ_COPY_BUFSZ); the model
\* builds with a buffer this small so that source files of a few bytes take
\* several trips through the copy loop.
TACOZ_COPY_BUFSZ == 2

(* ------------------------- status codes -------------------------------- *)
TACOZ_OK                == 0
TACOZ_ERR_IO            == -1
TACOZ_ERR_INVALID_GHOST == -3
TACOZ_ERR_PARAM         == -4

(* ----------------------------- constants ------------------------------- *)

SIG_LFH           == <<19280, 1027>>    \* 0x04034B50
SIG_CDFH          == <<19280, 513>>     \* 0x02014B50
SIG_EOCD          == <<19280, 1541>>    \* 0x06054B50
SIG_ZIP64_EOCD    == <<19280, 1542>>    \* 0x06064B50
SIG_ZIP64_LOCATOR == <<19280, 1798>>    \* 0x07064B50
SIG_DD            == <<19280, 2055>>    \* 0x08074B50
ALL_ONES_32       == <<65535, 65535>>   \* 0xFFFFFFFFu

VER_NEEDED_ZIP64 == 45
VER_MADE_BY      == 798                 \* 0x031E
GPFLAG_USE_DD    == 8
GPFLAG_UTF8      == 2048
METHOD_STORE     == 0
\* Build flag: 0 unless the build sets it.
TACOZ_SET_UTF8_FLAG == 0

EXTRA_TOTAL_LEN        == 116
TACO_GHOST_MAX_ENTRIES == 7
TACO_GHOST_NAME_LEN    == 10
\* "TACO_GHOST"
TACO_GHOST_NAME == <<84, 65, 67, 79, 95, 71, 72, 79, 83, 84>>
\* The three macros below are used by tacozip.c but defined outside src/;
\* their values are the ones tacozip.c's own comments give (160-byte ghost,
\* extra id 0x7454, 112 bytes of data).
TACO_GHOST_SIZE       == 160
TACO_GHOST_EXTRA_ID   == 29780          \* 0x7454
TACO_GHOST_EXTRA_SIZE == 112

(* ------------------------ fixed-width integers ------------------------- *)
U16Max == 65535
Zero64 == <<0, 0, 0, 0>>
\* (uint64_t)n for a non-negative n below 2^31.
U64(n) == <<n % 65536, n \div 65536, 0, 0>>
\* (uint32_t)n for a non-negative n below 2^31.
U32(n) == <<n % 65536, n \div 65536>>

Min(a, b) == IF a < b THEN a ELSE b

(* ------------------------ little-endian writers ------------------------ *)
le16(v) == <<v % 256, (v \div 256) % 256>>
le32(v) == le16(v[1]) \o le16(v[2])
le64(v) == le16(v[1]) \o le16(v[2]) \o le16(v[3]) \o le16(v[4])

(* ------------------------ little-endian readers ------------------------ *)
\* p is the byte sequence starting at the field.
le16_read(p) == p[1] + 256 * p[2]
le32_read(p) == <<p[1] + 256 * p[2], p[3] + 256 * p[4]>>
le64_read(p) == <<p[1] + 256 * p[2], p[3] + 256 * p[4],
                  p[5] + 256 * p[6], p[7] + 256 * p[8]>>

\* The len bytes of file f at byte offset off.
At(f, off, len) == SubSeq(f, off + 1, off + len)

(* -------------------------------- CRC32 -------------------------------- *)
RECURSIVE XorBits(_, _, _)
XorBits(a, b, bits) ==
    IF bits = 0 THEN 0
    ELSE (((a % 2) + (b % 2)) % 2) + 2 * XorBits(a \div 2, b \div 2, bits - 1)
Xor32(a, b) == <<XorBits(a[1], b[1], 16), XorBits(a[2], b[2], 16)>>
Shr32(c, k) == LET p == 2 ^ k
               IN  <<(c[1] \div p) + ((c[2] % p) * (65536 \div p)), c[2] \div p>>
CRC_POLY == <<33568, 60856>>            \* 0xEDB88320

RECURSIVE crc32_tab_entry(_, _)
crc32_tab_entry(c, j) ==
    IF j = 8 THEN c
    ELSE crc32_tab_entry(IF c[1] % 2 = 1 THEN Xor32(CRC_POLY, Shr32(c, 1))
                                         ELSE Shr32(c, 1), j + 1)
\* The table crc32_init_table leaves behind, entry i at index i + 1.
RECURSIVE crc32_init_table(_, _)
crc32_init_table(lo, hi) ==
    IF lo = hi THEN <<crc32_tab_entry(<<lo, 0>>, 0)>>
    ELSE crc32_init_table(lo, (lo + hi) \div 2)
         \o crc32_init_table(((lo + hi) \div 2) + 1, hi)
crc32_tab == crc32_init_table(0, 255)

RECURSIVE crc32_update_stream(_, _)
crc32_update_stream(crc, buf) ==
    IF buf = <<>> THEN crc
    ELSE crc32_update_stream(
           Xor32(crc32_tab[XorBits(crc[1] % 256, Head(buf), 8) + 1],
                 Shr32(crc, 8)),
           Tail(buf))

(* ------------------------- ghost helper functions ---------------------- *)
\* A count that does not stop at the first (0,0) pair.
count_every_live(offsets, lengths) ==
    Cardinality({i \in 1..TACO_GHOST_MAX_ENTRIES :
                    offsets[i] # Zero64 \/ lengths[i] # Zero64})

\* offsets and lengths are the caller's arrays of 7 uint64_t.
RECURSIVE count_scan(_, _, _)
count_scan(offsets, lengths, i) ==
    IF i > TACO_GHOST_MAX_ENTRIES THEN TACO_GHOST_MAX_ENTRIES
    ELSE IF offsets[i] = Zero64 /\ lengths[i] = Zero64 THEN i - 1
    ELSE count_scan(offsets, lengths, i + 1)
count_valid_entries(offsets, lengths) == count_scan(offsets, lengths, 1)

\* A taco_meta_array_t: [count, entries], entries a sequence of 7 pairs.
arrays_to_meta_struct(offsets, lengths) ==
    [count   |-> count_valid_entries(offsets, lengths),
     entries |-> [i \in 1..TACO_GHOST_MAX_ENTRIES |->
                     [offset |-> offsets[i], length |-> lengths[i]]]]

meta_struct_to_offsets(meta) ==
    [i \in 1..TACO_GHOST_MAX_ENTRIES |-> meta.entries[i].offset]
meta_struct_to_lengths(meta) ==
    [i \in 1..TACO_GHOST_MAX_ENTRIES |-> meta.entries[i].length]

\* taco_meta_array_t meta = {0}
ZeroMeta == [count   |-> 0,
             entries |-> [i \in 1..TACO_GHOST_MAX_ENTRIES |->
                             [offset |-> Zero64, length |-> Zero64]]]

(* ------------------------------ buffers -------------------------------- *)
Zeros(n) == [i \in 1..n |-> 0]
\* memcpy(b + off, bytes, Len(bytes)) into buffer (or file image) b, where
\* off <= Len(b); a file grows when the bytes reach past its end.
Poke(b, off, bytes) ==
    SubSeq(b, 1, off) \o bytes \o SubSeq(b, off + Len(bytes) + 1, Len(b))

RECURSIVE PairBytes(_, _)
PairBytes(meta, i) ==
    IF i > TACO_GHOST_MAX_ENTRIES THEN <<>>
    ELSE le64(meta.entries[i].offset) \o le64(meta.entries[i].length)
         \o PairBytes(meta, i + 1)

(* ----------------------------- ghost writer ---------------------------- *)
\* A ghost whose extra header states the data size of one pair.
write_ghost_multi_16(meta) ==
    Poke(Poke(Poke(Poke(Poke(Zeros(TACO_GHOST_SIZE), 0,
                             le32(SIG_LFH) \o le16(VER_NEEDED_ZIP64)
                             \o Zeros(20) \o le16(TACO_GHOST_NAME_LEN)
                             \o le16(EXTRA_TOTAL_LEN)),
                        30, TACO_GHOST_NAME),
                   40, le16(TACO_GHOST_EXTRA_ID) \o le16(16)),
              44, <<meta.count, 0, 0, 0>>),
         48, PairBytes(meta, 1))
\* The buffer b that write_ghost_multi hands to fwrite.
write_ghost_multi(meta) ==
    LET b0 == Zeros(TACO_GHOST_SIZE)
        b1 == Poke(b0, 0, le32(SIG_LFH) \o le16(VER_NEEDED_ZIP64) \o le16(0)
                          \o le16(0) \o le16(0) \o le16(0) \o le32(U32(0))
                          \o le32(U32(0)) \o le32(U32(0))
                          \o le16(TACO_GHOST_NAME_LEN) \o le16(EXTRA_TOTAL_LEN))
        b2 == Poke(b1, 30, TACO_GHOST_NAME)
        b3 == Poke(b2, 40, le16(TACO_GHOST_EXTRA_ID)
                           \o le16(TACO_GHOST_EXTRA_SIZE))
        b4 == Poke(b3, 44, <<meta.count, 0, 0, 0>>)
    IN  Poke(b4, 48, PairBytes(meta, 1))

\* A legacy writer that takes a pair with offset 0 for no pair.
write_ghost_legacy_off_only(meta_off, meta_len) ==
    write_ghost_multi(
        [count   |-> IF meta_off # Zero64 THEN 1 ELSE 0,
         entries |-> [i \in 1..TACO_GHOST_MAX_ENTRIES |->
                         IF i = 1 THEN [offset |-> meta_off, length |-> meta_len]
                         ELSE [offset |-> Zero64, length |-> Zero64]]])
\* The taco_meta_array_t write_ghost_legacy builds from one pair.
write_ghost_legacy(meta_off, meta_len) ==
    write_ghost_multi(
        [count   |-> IF meta_off # Zero64 \/ meta_len # Zero64 THEN 1 ELSE 0,
         entries |-> [i \in 1..TACO_GHOST_MAX_ENTRIES |->
                         IF i = 1 THEN [offset |-> meta_off, length |-> meta_len]
                         ELSE [offset |-> Zero64, length |-> Zero64]]])

(* --------------------------- ghost validation -------------------------- *)
\* A validation that leaves the extra header's data size unchecked.
validate_ghost_buf_lax(b) ==
    IF le32_read(At(b, 0, 4)) # SIG_LFH THEN TACOZ_ERR_INVALID_GHOST
    ELSE IF le16_read(At(b, 26, 2)) # TACO_GHOST_NAME_LEN
            \/ le16_read(At(b, 28, 2)) # EXTRA_TOTAL_LEN
         THEN TACOZ_ERR_INVALID_GHOST
    ELSE IF At(b, 30, TACO_GHOST_NAME_LEN) # TACO_GHOST_NAME
         THEN TACOZ_ERR_INVALID_GHOST
    ELSE IF le16_read(At(b, 40, 2)) # TACO_GHOST_EXTRA_ID
         THEN TACOZ_ERR_INVALID_GHOST
    ELSE IF b[45] > TACO_GHOST_MAX_ENTRIES THEN TACOZ_ERR_INVALID_GHOST
    ELSE TACOZ_OK
\* b holds TACO_GHOST_SIZE bytes.
validate_ghost_buf_multi(b) ==
    IF le32_read(At(b, 0, 4)) # SIG_LFH THEN TACOZ_ERR_INVALID_GHOST
    ELSE IF le16_read(At(b, 26, 2)) # TACO_GHOST_NAME_LEN
            \/ le16_read(At(b, 28, 2)) # EXTRA_TOTAL_LEN
         THEN TACOZ_ERR_INVALID_GHOST
    ELSE IF At(b, 30, TACO_GHOST_NAME_LEN) # TACO_GHOST_NAME
         THEN TACOZ_ERR_INVALID_GHOST
    ELSE IF le16_read(At(b, 40, 2)) # TACO_GHOST_EXTRA_ID
            \/ le16_read(At(b, 42, 2)) # TACO_GHOST_EXTRA_SIZE
         THEN TACOZ_ERR_INVALID_GHOST
    ELSE IF b[45] > TACO_GHOST_MAX_ENTRIES THEN TACOZ_ERR_INVALID_GHOST
    ELSE TACOZ_OK

(* ------------------------------ I/O faults ----------------------------- *)
(* A call names, beside its arguments, the environment's part in it: k is  *)
(* the number of the library call (fopen, fread, fwrite, fseeko, ftello,   *)
(* malloc, ...) that fails, counted in the order the handler makes them,   *)
(* 0 when none fails; n is how many bytes the failing fread or fwrite      *)
(* still transfers.  A write that returned success has reached the file.   *)
NoFault == [k |-> 0, n |-> 0]

(* ------------------------------ ghost reader --------------------------- *)
\* The file at zip_path is [exists, bytes].  The result is the status and
\* the caller's taco_meta_array_t afterwards (prev before the call).
tacozip_read_ghost_multi(file, args, fault, prev) ==
    IF args.zip_path_null \/ args.out_null
    THEN [rc |-> TACOZ_ERR_PARAM, out |-> prev, failed |-> ""]
    ELSE IF ~file.exists \/ fault.k = 1
    THEN [rc |-> TACOZ_ERR_IO, out |-> prev, failed |-> "fopen"]
    ELSE
    LET avail == Min(TACO_GHOST_SIZE, Len(file.bytes))
        n     == IF fault.k = 2 THEN Min(fault.n, avail) ELSE avail
        b     == At(file.bytes, 0, TACO_GHOST_SIZE)
    IN  IF n # TACO_GHOST_SIZE
        THEN [rc |-> TACOZ_ERR_IO, out |-> prev, failed |-> "fread"]
        ELSE IF validate_ghost_buf_multi(b) # TACOZ_OK
        THEN [rc |-> validate_ghost_buf_multi(b), out |-> prev, failed |-> ""]
        ELSE IF b[45] > TACO_GHOST_MAX_ENTRIES
        THEN [rc |-> TACOZ_ERR_INVALID_GHOST,
              out |-> [prev EXCEPT !.count = b[45]], failed |-> ""]
        ELSE [rc |-> TACOZ_OK,
              out |-> [count   |-> b[45],
                       entries |-> [i \in 1..TACO_GHOST_MAX_ENTRIES |->
                          [offset |-> le64_read(At(b, 48 + (i - 1) * 16, 8)),
                           length |-> le64_read(At(b, 48 + (i - 1) * 16 + 8, 8))]]],
              failed |-> ""]

\* The legacy reader: status and the caller's taco_meta_ptr_t afterwards.
tacozip_read_ghost(file, args, fault, prev) ==
    IF args.zip_path_null \/ args.out_null
    THEN [rc |-> TACOZ_ERR_PARAM, out |-> prev, failed |-> ""]
    ELSE
    LET r == tacozip_read_ghost_multi(
                 file, [zip_path_null |-> FALSE, out_null |-> FALSE], fault,
                 ZeroMeta)
    IN  IF r.rc # TACOZ_OK THEN [rc |-> r.rc, out |-> prev, failed |-> r.failed]
        ELSE IF r.out.count > 0
        THEN [rc |-> TACOZ_OK, out |-> r.out.entries[1], failed |-> ""]
        ELSE [rc |-> TACOZ_OK, out |-> [offset |-> Zero64, length |-> Zero64],
              failed |-> ""]

(* ------------------------------ ghost updater -------------------------- *)
\* An update loop that writes no pair.
update_pairs_none(bytes, meta, i, fault) ==
    [rc |-> TACOZ_OK, bytes |-> bytes, failed |-> ""]
\* An update loop whose first pair lands one pair too far.
RECURSIVE update_pairs_late(_, _, _, _)
update_pairs_late(bytes, meta, i, fault) ==
    IF i > TACO_GHOST_MAX_ENTRIES
    THEN [rc |-> TACOZ_OK, bytes |-> bytes, failed |-> ""]
    ELSE update_pairs_late(
             Poke(bytes, 48 + i * 16,
                  le64(meta.entries[i].offset) \o le64(meta.entries[i].length)),
             meta, i + 1, fault)

\* An update loop that starts where the count write left the stream, the
\* seek to offset 48 not having moved it.
RECURSIVE update_pairs_unseeked(_, _, _, _)
update_pairs_unseeked(bytes, meta, i, fault) ==
    IF i > TACO_GHOST_MAX_ENTRIES
    THEN [rc |-> TACOZ_OK, bytes |-> bytes, failed |-> ""]
    ELSE update_pairs_unseeked(
             Poke(bytes, 45 + (i - 1) * 16,
                  le64(meta.entries[i].offset) \o le64(meta.entries[i].length)),
             meta, i + 1, fault)

\* Pair writes i..7 of the update loop onto file image bytes; the k-th
\* library call of the handler being the fwrite of pair k - 5.
RECURSIVE update_pairs(_, _, _, _)
update_pairs(bytes, meta, i, fault) ==
    IF i > TACO_GHOST_MAX_ENTRIES
    THEN [rc |-> TACOZ_OK, bytes |-> bytes, failed |-> ""]
    ELSE LET pair == le64(meta.entries[i].offset) \o le64(meta.entries[i].length)
             pos  == 48 + (i - 1) * 16
         IN  IF fault.k = 5 + i
             THEN [rc |-> TACOZ_ERR_IO,
                   bytes |-> Poke(bytes, pos, SubSeq(pair, 1, Min(fault.n, 15))),
                   failed |-> "fwrite_pair"]
             ELSE update_pairs(Poke(bytes, pos, pair), meta, i + 1, fault)

\* Status and the file's bytes afterwards.
tacozip_update_ghost_multi(file, args, fault) ==
    IF args.zip_path_null \/ args.offsets_null \/ args.lengths_null
       \/ args.array_size # TACO_GHOST_MAX_ENTRIES
    THEN [rc |-> TACOZ_ERR_PARAM, bytes |-> file.bytes, failed |-> ""]
    ELSE IF ~file.exists \/ fault.k = 1
    THEN [rc |-> TACOZ_ERR_IO, bytes |-> file.bytes, failed |-> "fopen"]
    ELSE
    LET avail == Min(TACO_GHOST_SIZE, Len(file.bytes))
        n     == IF fault.k = 2 THEN Min(fault.n, avail) ELSE avail
        b     == At(file.bytes, 0, TACO_GHOST_SIZE)
        meta  == arrays_to_meta_struct(args.offsets, args.lengths)
        b1    == Poke(file.bytes, 44, <<meta.count>>)
        loop  == update_pairs(b1, meta, 1, fault)
    IN  IF n # TACO_GHOST_SIZE
        THEN [rc |-> TACOZ_ERR_IO, bytes |-> file.bytes, failed |-> "fread"]
        ELSE IF validate_ghost_buf_multi(b) # TACOZ_OK
        THEN [rc |-> validate_ghost_buf_multi(b), bytes |-> file.bytes,
              failed |-> ""]
        ELSE IF fault.k = 3
        THEN [rc |-> TACOZ_ERR_IO, bytes |-> file.bytes, failed |-> "fseeko_44"]
        ELSE IF fault.k = 4
        THEN [rc |-> TACOZ_ERR_IO, bytes |-> file.bytes,
              failed |-> "fwrite_count"]
        ELSE IF fault.k = 5
        THEN [rc |-> TACOZ_ERR_IO, bytes |-> b1, failed |-> "fseeko_48"]
        ELSE IF loop.rc # TACOZ_OK THEN loop
        ELSE IF fault.k = 13
        THEN [rc |-> TACOZ_ERR_IO, bytes |-> loop.bytes, failed |-> "fclose"]
        ELSE [rc |-> TACOZ_OK, bytes |-> loop.bytes, failed |-> ""]

\* A legacy updater that writes its pair and six (0,0) pairs.
tacozip_update_ghost_first_only(file, args, fault) ==
    tacozip_update_ghost_multi(
        file,
        [zip_path_null |-> args.zip_path_null, offsets_null |-> FALSE,
         lengths_null |-> FALSE, array_size |-> TACO_GHOST_MAX_ENTRIES,
         offsets |-> [i \in 1..TACO_GHOST_MAX_ENTRIES |->
                         IF i = 1 THEN args.new_offset ELSE Zero64],
         lengths |-> [i \in 1..TACO_GHOST_MAX_ENTRIES |->
                         IF i = 1 THEN args.new_length ELSE Zero64]],
        fault)

\* The legacy updater: the reader's two library calls come first, then the
\* thirteen of tacozip_update_ghost_multi.
tacozip_update_ghost(file, args, fault) ==
    IF args.zip_path_null
    THEN [rc |-> TACOZ_ERR_PARAM, bytes |-> file.bytes, failed |-> ""]
    ELSE
    LET r    == tacozip_read_ghost_multi(
                    file, [zip_path_null |-> FALSE, out_null |-> FALSE],
                    fault, ZeroMeta)
        meta == [r.out EXCEPT !.entries[1] =
                    [offset |-> args.new_offset, length |-> args.new_length]]
    IN  IF r.rc # TACOZ_OK
        THEN [rc |-> r.rc, bytes |-> file.bytes, failed |-> r.failed]
        ELSE tacozip_update_ghost_multi(
                 file,
                 [zip_path_null |-> FALSE, offsets_null |-> FALSE,
                  lengths_null |-> FALSE,
                  array_size |-> TACO_GHOST_MAX_ENTRIES,
                  offsets |-> meta_struct_to_offsets(meta),
                  lengths |-> meta_struct_to_lengths(meta)],
                 [k |-> IF fault.k > 2 THEN fault.k - 2 ELSE 0, n |-> fault.n])

(* ------------------------------ source files --------------------------- *)
\* A null element of src_files (paths are strings) and of arc_files (names
\* are byte sequences).
NULL_PATH == "(null)"
NULL_NAME == <<-1>>
\* The source files on the filesystem: path |-> contents.  They are regular
\* files and do not change.  A path that is not listed does not exist.
SrcFS == [hello |-> <<104, 101, 108, 108, 111>>,    \* "hello"
          empty |-> <<>>,
          abcd  |-> <<97, 98, 99, 100>>]            \* "abcd"
SrcExists(path) == path \in DOMAIN SrcFS
strlen(name) == Len(name)

(* --------------------------- the output stream -------------------------- *)
(* The builder state of one create call: zipw_t and the locals of the      *)
(* functions that work on it.  out is what the output stream holds, byte 0 *)
(* first (the stream is opened "wb" and only appended to, so ftello is     *)
(* Len(out)); calls counts the library calls made so far; rc is the status *)
(* the handler is about to return and failed the library call that failed; *)
(* reserved is the size posix_fallocate gave the file.  in is the unread   *)
(* rest of the source file being added and in_err its error indicator; r,  *)
(* chunk, crc, sz and lfh_off are add_file's locals (chunk the first r     *)
(* bytes of w->buf); cd_start and cd_end are write_cd_and_eocd's.  in_open *)
(* tells that the source handle is open, and log lists what the call has   *)
(* acquired and released so far, in order, each as <<what, i>> with i the  *)
(* index of the file it belongs to (0 when to none).                       *)
NewWriter == [out |-> <<>>, calls |-> 0, rc |-> TACOZ_OK, failed |-> "",
              ents |-> <<>>, cap |-> 0, buf |-> FALSE, out_buf |-> FALSE,
              reserved |-> 0, in |-> <<>>, in_err |-> FALSE, r |-> 0,
              chunk |-> <<>>, crc |-> ALL_ONES_32, sz |-> 0, lfh_off |-> 0,
              cd_start |-> 0, cd_end |-> 0, in_open |-> FALSE, log |-> <<>>]

Fails(w, fault) == w.calls + 1 = fault.k
Fail(w, rc, what) == [w EXCEPT !.calls = @ + 1, !.rc = rc, !.failed = what]

\* An error return of add_file that leaves the source handle open.
CloseInOnError_never(w) == w
\* { fclose(in); return ...; }: the error returns of add_file between the
\* fopen of the source and the fclose behind the copy loop
CloseInOnError(w) ==
    IF w.rc # TACOZ_OK /\ w.in_open
    THEN [w EXCEPT !.in_open = FALSE,
                   !.log = Append(@, <<"fclose_src", Len(w.ents) + 1>>)]
    ELSE w

\* A library call that moves no bytes (fopen, malloc, realloc, strdup,
\* ftello): it fails with an I/O error or goes through.  A handler that has
\* returned (w.rc is not TACOZ_OK) makes no further call.
Lib(w, what, fault) ==
    IF w.rc # TACOZ_OK THEN w
    ELSE IF Fails(w, fault) THEN Fail(w, TACOZ_ERR_IO, what)
    ELSE [w EXCEPT !.calls = @ + 1]

\* TZ_FWRITE(block, 1, Len(block), w->fp) and the check of its result.
Fwrite(w, block, what, fault) ==
    IF w.rc # TACOZ_OK THEN w
    ELSE IF Fails(w, fault)
    THEN [Fail(w, TACOZ_ERR_IO, what) EXCEPT
             !.out = @ \o SubSeq(block, 1, Min(fault.n, Len(block) - 1))]
    ELSE [w EXCEPT !.calls = @ + 1, !.out = @ \o block]

(* ------------------------ central directory list ------------------------ *)
push_entry_grow(w, fault) ==
    IF w.rc # TACOZ_OK \/ Len(w.ents) # w.cap THEN w
    ELSE IF Fails(w, fault) THEN Fail(w, TACOZ_ERR_IO, "realloc_ents")
    ELSE [w EXCEPT !.calls = @ + 1, !.cap = IF @ # 0 THEN @ * 2 ELSE 16,
                   !.log = IF w.cap = 0 THEN Append(@, <<"realloc_ents", 0>>)
                           ELSE @]
\* A list that grows at its front.
push_entry_dup_front(w, src, fault) ==
    IF w.rc # TACOZ_OK THEN w
    ELSE IF Fails(w, fault) THEN Fail(w, TACOZ_ERR_IO, "strdup")
    ELSE [w EXCEPT !.calls = @ + 1, !.ents = <<src>> \o @]
push_entry_dup(w, src, fault) ==
    IF w.rc # TACOZ_OK THEN w
    ELSE IF Fails(w, fault) THEN Fail(w, TACOZ_ERR_IO, "strdup")
    ELSE [w EXCEPT !.calls = @ + 1, !.ents = Append(@, src),
                   !.log = Append(@, <<"strdup", Len(w.ents) + 1>>)]
push_entry(w, src, fault) == push_entry_dup(push_entry_grow(w, fault), src, fault)

(* ------------------------------ preallocation --------------------------- *)
RECURSIVE fallocate_sum(_, _, _, _)
fallocate_sum(src_files, arc_files, num_files, i) ==
    IF i > num_files THEN 0
    ELSE LET fsz  == IF src_files[i] # NULL_PATH /\ SrcExists(src_files[i])
                        /\ Len(SrcFS[src_files[i]]) > 0
                     THEN Len(SrcFS[src_files[i]]) ELSE 0
             nlen == IF arc_files[i] # NULL_NAME
                     THEN Min(strlen(arc_files[i]), U16Max) ELSE 0
         IN  (30 + nlen) + fsz + (4 + 4 + 8 + 8) + (46 + nlen + 28)
             + fallocate_sum(src_files, arc_files, num_files, i + 1)
\* An estimate whose loop assigns to the sum where it should add to it:
\* only the last file is counted.
try_posix_fallocate_estimate_last(src_files, arc_files, num_files) ==
    TACO_GHOST_SIZE
    + fallocate_sum(src_files, arc_files, num_files,
                    IF num_files > 1 THEN num_files ELSE 1)
    + 56 + 20 + 22
\* The size try_posix_fallocate_estimate asks the filesystem to reserve.
try_posix_fallocate_estimate(src_files, arc_files, num_files) ==
    TACO_GHOST_SIZE + fallocate_sum(src_files, arc_files, num_files, 1)
    + 56 + 20 + 22

(* ------------------------------ add one file ---------------------------- *)
gpflags == IF TACOZ_SET_UTF8_FLAG # 0 THEN GPFLAG_USE_DD + GPFLAG_UTF8
           ELSE GPFLAG_USE_DD

\* in = fopen(src_path, "rb")
add_file_open(w, src_path, fault) ==
    IF w.rc # TACOZ_OK THEN w
    ELSE IF ~SrcExists(src_path) \/ Fails(w, fault)
    THEN Fail(w, TACOZ_ERR_IO, "fopen_src")
    ELSE [w EXCEPT !.calls = @ + 1, !.in = SrcFS[src_path],
                   !.in_err = FALSE, !.in_open = TRUE,
                   !.log = Append(@, <<"fopen_src", Len(w.ents) + 1>>)]
\* the copy buffer, allocated by the first add_file
add_file_buf(w, fault) ==
    IF w.rc # TACOZ_OK \/ w.buf THEN w
    ELSE IF Fails(w, fault) THEN Fail(w, TACOZ_ERR_IO, "realloc_buf")
    ELSE [w EXCEPT !.calls = @ + 1, !.buf = TRUE,
                   !.log = Append(@, <<"realloc_buf", 0>>)]
\* An offset counted from the end of the ghost instead of byte 0.
add_file_ftello_rel(w, fault) ==
    IF w.rc # TACOZ_OK THEN w
    ELSE IF Fails(w, fault) THEN Fail(w, TACOZ_ERR_IO, "ftello")
    ELSE [w EXCEPT !.calls = @ + 1,
                   !.lfh_off = Len(w.out) - TACO_GHOST_SIZE]
\* lfh_off = ftello(w->fp)
add_file_ftello(w, fault) ==
    IF w.rc # TACOZ_OK THEN w
    ELSE IF Fails(w, fault) THEN Fail(w, TACOZ_ERR_IO, "ftello")
    ELSE [w EXCEPT !.calls = @ + 1, !.lfh_off = Len(w.out)]
\* the local file header, then the name
add_file_lfh(w, name_len, fault) ==
    Fwrite(w,
           le32(SIG_LFH) \o le16(VER_NEEDED_ZIP64) \o le16(gpflags)
           \o le16(METHOD_STORE) \o le16(0) \o le16(0) \o le32(U32(0))
           \o le32(ALL_ONES_32) \o le32(ALL_ONES_32)
           \o le16(name_len % 65536) \o le16(0),
           "fwrite_lfh", fault)
\* A name written with its terminating NUL.
add_file_name_nul(w, arc_name, fault) ==
    Fwrite(w, arc_name \o <<0>>, "fwrite_name", fault)
add_file_name(w, arc_name, fault) ==
    IF strlen(arc_name) # 0 THEN Fwrite(w, arc_name, "fwrite_name", fault)
    ELSE w
\* crc = 0xFFFFFFFF, sz = 0
add_file_start(w) ==
    IF w.rc # TACOZ_OK THEN w ELSE [w EXCEPT !.crc = ALL_ONES_32, !.sz = 0]

\* r = TZ_FREAD(w->buf, 1, w->buf_cap, in): a read that fails still moves
\* fault.n bytes and sets the stream's error indicator, after which the
\* stream gives nothing.
copy_fread(w, fault) ==
    LET full == Min(TACOZ_COPY_BUFSZ, Len(w.in))
        r    == IF w.in_err THEN 0
                ELSE IF Fails(w, fault) THEN Min(fault.n, full) ELSE full
    IN  [w EXCEPT !.calls = @ + 1, !.r = r, !.chunk = SubSeq(w.in, 1, r),
                  !.in = SubSeq(@, r + 1, Len(@)),
                  !.in_err = @ \/ Fails(w, fault)]
copy_crc(w) ==
    IF w.r > 0 THEN [w EXCEPT !.crc = crc32_update_stream(@, w.chunk)] ELSE w
copy_fwrite(w, fault) ==
    IF w.r > 0 THEN Fwrite(w, w.chunk, "fwrite_data", fault) ELSE w
\* A loop that forgets sz += r.
copy_count_none(w) == w
copy_count(w) ==
    IF w.r > 0 /\ w.rc = TACOZ_OK THEN [w EXCEPT !.sz = @ + w.r] ELSE w
\* The copy loop of add_file.
RECURSIVE copy_loop(_, _)
RECURSIVE copy_next(_, _)
copy_loop(w, fault) ==
    IF w.rc # TACOZ_OK THEN w
    ELSE CloseInOnError(
             copy_next(copy_count(copy_fwrite(copy_crc(copy_fread(w, fault)),
                                              fault)),
                       fault))
\* A loop end that takes every short read for the end of the file.
copy_next_eof(w, fault) ==
    IF w.rc # TACOZ_OK THEN w
    ELSE IF w.r < TACOZ_COPY_BUFSZ THEN w
    ELSE copy_loop(w, fault)
copy_next(w, fault) ==
    IF w.rc # TACOZ_OK THEN w
    ELSE IF w.r < TACOZ_COPY_BUFSZ
    THEN IF w.in_err THEN [w EXCEPT !.rc = TACOZ_ERR_IO, !.failed = "fread"]
         ELSE w
    ELSE copy_loop(w, fault)

\* A finish that leaves the xor-out undone.
add_file_xor_out_none(w) == w
\* fclose(in); crc ^= 0xFFFFFFFF
add_file_xor_out(w) ==
    IF w.rc # TACOZ_OK THEN w
    ELSE [w EXCEPT !.crc = Xor32(@, ALL_ONES_32), !.in_open = FALSE,
                   !.log = Append(@, <<"fclose_src", Len(w.ents) + 1>>)]
\* the ZIP64 data descriptor
add_file_dd(w, fault) ==
    Fwrite(w,
           le32(SIG_DD) \o le32(w.crc) \o le64(U64(w.sz)) \o le64(U64(w.sz)),
           "fwrite_dd", fault)
add_file_push(w, arc_name, fault) ==
    push_entry(w,
               [name |-> arc_name, gp_flags |-> gpflags,
                method |-> METHOD_STORE, crc32 |-> w.crc,
                comp_size |-> U64(w.sz), uncomp_size |-> U64(w.sz),
                lfh_offset |-> U64(w.lfh_off)],
               fault)

\* name_len > 0xFFFFu: the ZIP name field is a uint16
name_too_long(arc_name) == strlen(arc_name) > U16Max

add_file(w, src_path, arc_name, fault) ==
    IF name_too_long(arc_name) THEN [w EXCEPT !.rc = TACOZ_ERR_PARAM]
    ELSE
    add_file_push(
      add_file_dd(
        add_file_xor_out(
          copy_loop(
            add_file_start(
              CloseInOnError(
                add_file_name(
                  add_file_lfh(
                    add_file_ftello(
                      add_file_buf(add_file_open(w, src_path, fault), fault),
                      fault),
                    strlen(arc_name), fault),
                  arc_name, fault))),
            fault)),
        fault),
      arc_name, fault)

(* --------------------- central directory and EOCDs ---------------------- *)
\* cd_start = ftello(w->fp)
cd_ftello_start(w, fault) ==
    IF w.rc # TACOZ_OK THEN w
    ELSE IF Fails(w, fault) THEN Fail(w, TACOZ_ERR_IO, "ftello_cd_start")
    ELSE [w EXCEPT !.calls = @ + 1, !.cd_start = Len(w.out)]
\* The block of one entry: CDFH, name, ZIP64 extra.
cd_blk(e) ==
    le32(SIG_CDFH) \o le16(VER_MADE_BY) \o le16(VER_NEEDED_ZIP64)
    \o le16(e.gp_flags) \o le16(e.method) \o le16(0) \o le16(0)
    \o le32(e.crc32) \o le32(ALL_ONES_32) \o le32(ALL_ONES_32)
    \o le16(strlen(e.name) % 65536) \o le16(2 + 2 + 8 + 8 + 8) \o le16(0)
    \o le16(0) \o le16(0) \o le32(U32(0)) \o le32(ALL_ONES_32)
    \o e.name
    \o le16(1) \o le16(24) \o le64(e.uncomp_size)
    \o le64(e.comp_size) \o le64(e.lfh_offset)
RECURSIVE write_cd_loop(_, _, _)
write_cd_loop(w, i, fault) ==
    IF w.rc # TACOZ_OK \/ i > Len(w.ents) THEN w
    ELSE IF strlen(w.ents[i].name) > U16Max
    THEN [w EXCEPT !.rc = TACOZ_ERR_PARAM]
    ELSE write_cd_loop(Fwrite(Lib(w, "malloc_blk", fault), cd_blk(w.ents[i]),
                              "fwrite_cdfh", fault),
                       i + 1, fault)
\* cd_end = ftello(w->fp)
cd_ftello_end(w, fault) ==
    IF w.rc # TACOZ_OK THEN w
    ELSE IF Fails(w, fault) THEN Fail(w, TACOZ_ERR_IO, "ftello_cd_end")
    ELSE [w EXCEPT !.calls = @ + 1, !.cd_end = Len(w.out)]
\* ZIP64 EOCD, ZIP64 locator, classic EOCD.
cd_z64e(w) ==
    le32(SIG_ZIP64_EOCD) \o le64(U64(44)) \o le16(VER_MADE_BY)
    \o le16(VER_NEEDED_ZIP64) \o le32(U32(0)) \o le32(U32(0))
    \o le64(U64(Len(w.ents))) \o le64(U64(Len(w.ents)))
    \o le64(U64(w.cd_end - w.cd_start)) \o le64(U64(w.cd_start))
cd_loc(w) ==
    le32(SIG_ZIP64_LOCATOR) \o le32(U32(0)) \o le64(U64(w.cd_end))
    \o le32(U32(1))
cd_eocd ==
    le32(SIG_EOCD) \o le16(0) \o le16(0) \o le16(65535) \o le16(65535)
    \o le32(ALL_ONES_32) \o le32(ALL_ONES_32) \o le16(0)
write_eocds(w, fault) ==
    Fwrite(Fwrite(Fwrite(w, cd_z64e(w), "fwrite_z64e", fault),
                  cd_loc(w), "fwrite_loc", fault),
           cd_eocd, "fwrite_eocd", fault)

write_cd_and_eocd(w, fault) ==
    write_eocds(
      cd_ftello_end(write_cd_loop(cd_ftello_start(w, fault), 1, fault), fault),
      fault)

(* ------------------------------- create --------------------------------- *)
\* A loop that passes over a null element instead of returning.
RECURSIVE create_files_skip_null(_, _, _, _, _, _)
create_files_skip_null(w, src_files, arc_files, num_files, i, fault) ==
    IF w.rc # TACOZ_OK \/ i > num_files THEN w
    ELSE IF src_files[i] = NULL_PATH \/ arc_files[i] = NULL_NAME
    THEN create_files_skip_null(w, src_files, arc_files, num_files, i + 1,
                                fault)
    ELSE create_files_skip_null(
             add_file(w, src_files[i], arc_files[i], fault),
             src_files, arc_files, num_files, i + 1, fault)

RECURSIVE create_files(_, _, _, _, _, _)
create_files(w, src_files, arc_files, num_files, i, fault) ==
    IF w.rc # TACOZ_OK \/ i > num_files THEN w
    ELSE IF src_files[i] = NULL_PATH \/ arc_files[i] = NULL_NAME
    THEN [w EXCEPT !.rc = TACOZ_ERR_PARAM]
    ELSE create_files(add_file(w, src_files[i], arc_files[i], fault),
                      src_files, arc_files, num_files, i + 1, fault)

\* fp = fopen(zip_path, "wb")
create_open(fault) ==
    IF Fails(NewWriter, fault) THEN Fail(NewWriter, TACOZ_ERR_IO, "fopen_out")
    ELSE [NewWriter EXCEPT !.calls = 1, !.log = <<<<"fopen_out", 0>>>>]

\* malloc(TACOZ_OUT_BUFSZ), without which the stream keeps its own buffer,
\* and posix_fallocate, whose failure is ignored.
create_prepare(w, src_files, arc_files, num_files, fault) ==
    [w EXCEPT !.calls = @ + 2,
              !.out_buf = ~Fails(w, fault),
              !.log = IF Fails(w, fault) THEN @
                      ELSE Append(@, <<"malloc_out_buf", 0>>),
              !.reserved = IF w.calls + 2 = fault.k THEN 0
                           ELSE try_posix_fallocate_estimate(
                                    src_files, arc_files, num_files)]

\* Steps 4 and after: rc = write_cd_and_eocd(&w) and the checked fclose when
\* every file went in, the unchecked fclose of the early returns otherwise.
\* if (fclose(fp) != 0) ... return TACOZ_ERR_IO, rc = write_cd_and_eocd(&w)
\* being what create returns otherwise
\* A final close whose result is not looked at.
create_fclose_unchecked(w, fault) ==
    [w EXCEPT !.calls = @ + 1, !.log = Append(@, <<"fclose_out", 0>>)]
create_fclose_after_cd(w, fault) ==
    IF Fails(w, fault)
    THEN [w EXCEPT !.calls = @ + 1, !.rc = TACOZ_ERR_IO, !.failed = "fclose",
                   !.log = Append(@, <<"fclose_out", 0>>)]
    ELSE [w EXCEPT !.calls = @ + 1, !.log = Append(@, <<"fclose_out", 0>>)]
\* (void)fclose(fp) of the early returns
create_fclose(w, fault) ==
    [w EXCEPT !.calls = @ + 1, !.log = Append(@, <<"fclose_out", 0>>)]
create_finish(w, fault) ==
    IF w.rc # TACOZ_OK THEN create_fclose(w, fault)
    ELSE create_fclose_after_cd(write_cd_and_eocd(w, fault), fault)

\* for (j = 0; j < w.n; j++) free(w.ents[j].name);
RECURSIVE free_names(_, _)
free_names(log, n) ==
    IF n = 0 THEN log ELSE Append(free_names(log, n - 1), <<"free_name", n>>)
\* What create frees before it returns: the output buffer alone when the
\* ghost could not be written, else the copy buffer, the output buffer, the
\* names and the entry list (free(w.ents) of a list never allocated frees
\* nothing).
create_release(w) ==
    IF w.failed = "fwrite_ghost"
    THEN [w EXCEPT !.log = IF w.out_buf THEN Append(@, <<"free_out_buf", 0>>)
                           ELSE @]
    ELSE [w EXCEPT !.log =
             (free_names(
                  (@ \o (IF w.buf THEN <<<<"free_buf", 0>>>> ELSE <<>>))
                  \o (IF w.out_buf THEN <<<<"free_out_buf", 0>>>> ELSE <<>>),
                  Len(w.ents)))
             \o (IF w.cap > 0 THEN <<<<"free_ents", 0>>>> ELSE <<>>)]

\* The status, the file at zip_path afterwards, and the builder.
create_result(w) ==
    [rc |-> w.rc,
     file |-> [exists |-> TRUE, bytes |-> Poke(Zeros(w.reserved), 0, w.out)],
     w |-> w]

\* A create whose output is opened without truncation: what the file held
\* beyond the bytes written stays.
create_body_keep_old(file, src_files, arc_files, num_files, ghost, fault) ==
    LET r == create_result(
               create_finish(
                 create_files(
                   Fwrite(create_prepare(Lib(NewWriter, "fopen_out", fault),
                                         src_files, arc_files, num_files,
                                         fault),
                          ghost, "fwrite_ghost", fault),
                   src_files, arc_files, num_files, 1, fault),
                 fault))
    IN  [r EXCEPT !.file.bytes = Poke(file.bytes, 0, @)]

\* What create does once its arguments are checked, given the ghost's bytes.
create_body(file, src_files, arc_files, num_files, ghost, fault) ==
    LET w0 == create_open(fault)
    IN  IF w0.rc # TACOZ_OK
        THEN [rc |-> w0.rc, file |-> file, w |-> w0]
        ELSE create_result(
               create_release(
                 create_finish(
                   create_files(
                     Fwrite(create_prepare(w0, src_files, arc_files,
                                           num_files, fault),
                            ghost, "fwrite_ghost", fault),
                     src_files, arc_files, num_files, 1, fault),
                   fault)))

tacozip_create_multi(file, args, fault) ==
    IF args.zip_path_null \/ args.src_files_null \/ args.arc_files_null
       \/ args.num_files = 0
    THEN [rc |-> TACOZ_ERR_PARAM, file |-> file, w |-> NewWriter]
    ELSE IF args.offsets_null \/ args.lengths_null
            \/ args.array_size # TACO_GHOST_MAX_ENTRIES
    THEN [rc |-> TACOZ_ERR_PARAM, file |-> file, w |-> NewWriter]
    ELSE create_body(file, args.src_files, args.arc_files, args.num_files,
                     write_ghost_multi(
                         arrays_to_meta_struct(args.offsets, args.lengths)),
                     fault)

tacozip_create(file, args, fault) ==
    IF args.zip_path_null \/ args.src_files_null \/ args.arc_files_null
       \/ args.num_files = 0
    THEN [rc |-> TACOZ_ERR_PARAM, file |-> file, w |-> NewWriter]
    ELSE create_body(file, args.src_files, args.arc_files, args.num_files,
                     write_ghost_legacy(args.meta_offset, args.meta_length),
                     fault)

(* ============================ the state ================================ *)
(* srcs, arcs: the lists the caller passes to create as src_files and     *)
(*   arc_files, the same in every call of one behaviour.                   *)
(* disk: the file at zip_path, [exists, bytes].                            *)
(* op:   the last call: its name, its ghost arguments, the argument that   *)
(*   was invalid ("" when none) and the fault the environment injected.    *)
(* res:  what the last call returned: rc; failed, the library call that    *)
(*   failed; out and ptr, the caller's taco_meta_array_t and               *)
(*   taco_meta_ptr_t after it; ents, the builder's entry list when create  *)
(*   was done with it.                                                     *)
(* inited, tab: the statics of the CRC code, crc32_init_table's flag and   *)
(*   the table crc32_tab as it is in memory, entry i at index i + 1.       *)
(* thr:  the threads that are in add_file's CRC code: where each is (pc),  *)
(*   its loop index i in crc32_init_table, the bytes it has still to take  *)
(*   into its crc, its crc, and whether it has read a table entry that no  *)
(*   thread had written (stale).                                           *)
VARIABLES srcs, arcs, disk, op, res, inited, tab, thr
vars == <<srcs, arcs, disk, op, res, inited, tab, thr>>

(* ------------------------------ inputs --------------------------------- *)
\* Archive names: "a.txt", "e", "sub/y".
Name_a_txt == <<97, 46, 116, 120, 116>>
Name_e     == <<101>>
Name_sub_y == <<115, 117, 98, 47, 121>>
\* What a caller may put at one index of src_files and arc_files.
FileChoices == {<<"hello", Name_a_txt>>, <<"empty", Name_e>>,
                <<"abcd", Name_sub_y>>}
RECURSIVE FileLists(_)
FileLists(n) ==
    IF n = 0 THEN {<<>>}
    ELSE {Append(l, c) : l \in FileLists(n - 1), c \in FileChoices}
Jobs == UNION {FileLists(n) : n \in 1..MaxFiles}
JobSrc(job) == [i \in 1..Len(job) |-> job[i][1]]
JobArc(job) == [i \in 1..Len(job) |-> job[i][2]]

\* A long archive name is kept in the state as its length, <<-2, n>>
\* standing for the n bytes "xx...x", and handed to create in full.
LongName(n) == SubSeq([i \in 1..n |-> 120], 1, n)
LongArc(n) == <<-2, n>>
IsLongArc(a) == Len(a) = 2 /\ a[1] = -2
ArcName(a) == IF IsLongArc(a) THEN LongName(a[2]) ELSE a
ArcNames(arc_files) == [i \in 1..Len(arc_files) |-> ArcName(arc_files[i])]

\* Ghost arrays, as <<offsets, lengths>>.
V(n) == U64(n)
Big(i) == <<i, 256 * i + 1, 2 * i, 65280 + i>>
MetaZero == <<[i \in 1..7 |-> Zero64], [i \in 1..7 |-> Zero64]>>
\* offsets {10, 20, 0, ...}, lengths {1, 2, 0, ...}
MetaTwo  == <<<<V(10), V(20), Zero64, Zero64, Zero64, Zero64, Zero64>>,
              <<V(1), V(2), Zero64, Zero64, Zero64, Zero64, Zero64>>>>
\* a (0,0) pair at index 1 with live-looking pairs behind it
MetaHole == <<<<V(5), Zero64, V(7), Zero64, Zero64, Zero64, V(300)>>,
              <<Zero64, Zero64, V(9), Zero64, Zero64, Zero64, V(70000)>>>>
\* seven pairs in use, all eight bytes of a value in play
MetaFull == <<[i \in 1..7 |-> IF i = 1 THEN Zero64 ELSE Big(i)],
              [i \in 1..7 |-> IF i = 1 THEN <<65535, 65535, 65535, 65535>>
                              ELSE <<0, 0, i, 0>>]>>
MetaArrays == {MetaZero, MetaTwo, MetaHole, MetaFull}
\* Pairs for the legacy calls, as <<offset, length>>.
LegacyPairs == {<<Zero64, Zero64>>, <<V(100), V(50)>>, <<Zero64, V(5)>>,
                <<Big(3), Zero64>>}

NoPtr == [offset |-> Zero64, length |-> Zero64]
\* What the caller's structs hold before a read: a value no ghost of the
\* model holds, so that a struct the reader leaves alone shows.
PrevMeta == [count   |-> 255,
             entries |-> [i \in 1..7 |-> [offset |-> V(1), length |-> V(1)]]]
PrevPtr  == [offset |-> V(1), length |-> V(1)]

NoFile == [exists |-> FALSE, bytes |-> <<>>]
NoOp == [name |-> "none", offsets |-> <<>>, lengths |-> <<>>, bad |-> "",
         fault |-> NoFault]
NoRes == [rc |-> TACOZ_OK, failed |-> "", out |-> PrevMeta, ptr |-> PrevPtr,
          ents |-> <<>>]

\* The arguments an invalid create or update call gets wrong.
BadCreateMulti == {"zip_path", "src_files", "arc_files", "num_files",
                   "meta_offsets", "meta_lengths", "array_size"}
BadCreate      == {"zip_path", "src_files", "arc_files", "num_files"}
BadUpdateMulti == {"zip_path", "meta_offsets", "meta_lengths", "array_size"}
BadRead        == {"zip_path", "out"}

\* The statics as the loader leaves them, and two threads about to call
\* crc32_init_table from add_file, each with a source file of its own.
CRC_TAB_SIZE == 256
Threads == {1, 2}
ThreadSrc == <<"hello", "abcd">>
CrcInit ==
    /\ inited = 0
    /\ tab = [i \in 1..CRC_TAB_SIZE |-> <<0, 0>>]
    /\ thr = [t \in Threads |->
                 [pc |-> "crc32_init_table", i |-> 0,
                  in |-> SrcFS[ThreadSrc[t]], crc |-> ALL_ONES_32,
                  stale |-> FALSE]]

Init ==
    /\ \E job \in Jobs : srcs = JobSrc(job) /\ arcs = JobArc(job)
    /\ disk = NoFile
    /\ op = NoOp
    /\ res = NoRes
    /\ CrcInit

(* ------------------------------ actions -------------------------------- *)
CreateMultiArgs(src_files, arc_files, P, bad) ==
    [zip_path_null  |-> bad = "zip_path",
     src_files_null |-> bad = "src_files",
     arc_files_null |-> bad = "arc_files",
     num_files      |-> IF bad = "num_files" THEN 0 ELSE Len(src_files),
     offsets_null   |-> bad = "meta_offsets",
     lengths_null   |-> bad = "meta_lengths",
     array_size     |-> IF bad = "array_size" THEN TACO_GHOST_MAX_ENTRIES + 1
                        ELSE TACO_GHOST_MAX_ENTRIES,
     src_files |-> src_files, arc_files |-> arc_files,
     offsets |-> P[1], lengths |-> P[2]]
CreateArgs(src_files, arc_files, pair, bad) ==
    [zip_path_null  |-> bad = "zip_path",
     src_files_null |-> bad = "src_files",
     arc_files_null |-> bad = "arc_files",
     num_files      |-> IF bad = "num_files" THEN 0 ELSE Len(src_files),
     src_files |-> src_files, arc_files |-> arc_files,
     meta_offset |-> pair[1], meta_length |-> pair[2]]

\* What the two create calls do in a reliable environment with valid
\* arguments, for every job and ghost of the model, evaluated once (@@ makes
\* the table an explicit function).  Such a call opens zip_path with "wb",
\* so its result does not depend on what the file held before.
created_multi ==
    [c \in {<<JobSrc(j), JobArc(j), P>> : j \in Jobs, P \in MetaArrays} |->
        tacozip_create_multi(NoFile, CreateMultiArgs(c[1], c[2], c[3], ""),
                             NoFault)] @@ <<>>
created ==
    [c \in {<<JobSrc(j), JobArc(j), p>> : j \in Jobs, p \in LegacyPairs} |->
        tacozip_create(NoFile, CreateArgs(c[1], c[2], c[3], ""), NoFault)]
    @@ <<>>

\* The state after a create call that returned r.
Created(name, offsets, lengths, bad, fault, r) ==
    /\ disk' = r.file
    /\ op' = [name |-> name, offsets |-> offsets, lengths |-> lengths,
              bad |-> bad, fault |-> fault]
    /\ res' = [rc |-> r.rc, failed |-> r.w.failed, out |-> PrevMeta,
               ptr |-> PrevPtr, ents |-> r.w.ents]
    /\ UNCHANGED <<srcs, arcs, inited, tab, thr>>

\* tacozip_create_multi(zip_path, src_files, arc_files, num_files,
\*                      meta_offsets, meta_lengths, array_size)
CreateMulti(Ps, Bads, Faults) ==
    \E P \in Ps, bad \in Bads, fault \in Faults :
       Created("create_multi", P[1], P[2], bad, fault,
               IF bad = "" /\ fault = NoFault
                  /\ <<srcs, arcs, P>> \in DOMAIN created_multi
               THEN created_multi[<<srcs, arcs, P>>]
               ELSE tacozip_create_multi(
                        disk, CreateMultiArgs(srcs, ArcNames(arcs), P, bad),
                        fault))

\* tacozip_create(zip_path, src_files, arc_files, num_files, meta_offset,
\*                meta_length)
Create(Pairs, Bads, Faults) ==
    \E pair \in Pairs, bad \in Bads, fault \in Faults :
       Created("create", <<pair[1]>>, <<pair[2]>>, bad, fault,
               IF bad = "" /\ fault = NoFault
                  /\ <<srcs, arcs, pair>> \in DOMAIN created
               THEN created[<<srcs, arcs, pair>>]
               ELSE tacozip_create(
                        disk, CreateArgs(srcs, ArcNames(arcs), pair, bad),
                        fault))

\* tacozip_update_ghost_multi(zip_path, meta_offsets, meta_lengths, array_size)
UpdateGhostMulti(Ps, Bads, Faults) ==
    \E P \in Ps, bad \in Bads, fault \in Faults :
       LET r == tacozip_update_ghost_multi(
                    disk,
                    [zip_path_null |-> bad = "zip_path",
                     offsets_null  |-> bad = "meta_offsets",
                     lengths_null  |-> bad = "meta_lengths",
                     array_size    |-> IF bad = "array_size"
                                       THEN TACO_GHOST_MAX_ENTRIES + 1
                                       ELSE TACO_GHOST_MAX_ENTRIES,
                     offsets |-> P[1], lengths |-> P[2]],
                    fault)
       IN  /\ disk' = [disk EXCEPT !.bytes = r.bytes]
           /\ op' = [name |-> "update_ghost_multi", offsets |-> P[1],
                     lengths |-> P[2], bad |-> bad, fault |-> fault]
           /\ res' = [rc |-> r.rc, failed |-> r.failed, out |-> PrevMeta,
                      ptr |-> PrevPtr, ents |-> <<>>]
           /\ UNCHANGED <<srcs, arcs, inited, tab, thr>>

\* tacozip_update_ghost(zip_path, new_offset, new_length)
UpdateGhost(Pairs, Bads, Faults) ==
    \E pair \in Pairs, bad \in Bads, fault \in Faults :
       LET r == tacozip_update_ghost(
                    disk,
                    [zip_path_null |-> bad = "zip_path",
                     new_offset |-> pair[1], new_length |-> pair[2]],
                    fault)
       IN  /\ disk' = [disk EXCEPT !.bytes = r.bytes]
           /\ op' = [name |-> "update_ghost", offsets |-> <<pair[1]>>,
                     lengths |-> <<pair[2]>>, bad |-> bad, fault |-> fault]
           /\ res' = [rc |-> r.rc, failed |-> r.failed, out |-> PrevMeta,
                      ptr |-> PrevPtr, ents |-> <<>>]
           /\ UNCHANGED <<srcs, arcs, inited, tab, thr>>

\* tacozip_read_ghost_multi(zip_path, out)
ReadGhostMulti(Bads, Faults) ==
    \E bad \in Bads, fault \in Faults :
       LET r == tacozip_read_ghost_multi(
                    disk, [zip_path_null |-> bad = "zip_path",
                           out_null |-> bad = "out"], fault, PrevMeta)
       IN  /\ op' = [name |-> "read_ghost_multi", offsets |-> <<>>,
                     lengths |-> <<>>, bad |-> bad, fault |-> fault]
           /\ res' = [rc |-> r.rc, failed |-> r.failed, out |-> r.out,
                      ptr |-> PrevPtr, ents |-> <<>>]
           /\ UNCHANGED <<srcs, arcs, disk, inited, tab, thr>>

\* tacozip_read_ghost(zip_path, out)
ReadGhost(Bads, Faults) ==
    \E bad \in Bads, fault \in Faults :
       LET r == tacozip_read_ghost(
                    disk, [zip_path_null |-> bad = "zip_path",
                           out_null |-> bad = "out"], fault, PrevPtr)
       IN  /\ op' = [name |-> "read_ghost", offsets |-> <<>>,
                     lengths |-> <<>>, bad |-> bad, fault |-> fault]
           /\ res' = [rc |-> r.rc, failed |-> r.failed, out |-> PrevMeta,
                      ptr |-> r.out, ents |-> <<>>]
           /\ UNCHANGED <<srcs, arcs, disk, inited, tab, thr>>

(* --------------------------- specifications ---------------------------- *)
\* The public operations under an environment whose library calls do not
\* fail of their own: a call fails only for what its arguments and the file
\* at zip_path are.
Reliable == {NoFault}
Next ==
    \/ CreateMulti(MetaArrays, {""}, Reliable)
    \/ CreateMulti({MetaZero}, {"array_size"}, Reliable)
    \/ Create(LegacyPairs, {""}, Reliable)
    \/ Create({<<Zero64, Zero64>>}, {"num_files"}, Reliable)
    \/ UpdateGhostMulti(MetaArrays, {""}, Reliable)
    \/ UpdateGhostMulti({MetaZero}, {"meta_lengths"}, Reliable)
    \/ UpdateGhost(LegacyPairs, {""}, Reliable)
    \/ UpdateGhost({<<Zero64, Zero64>>}, {"zip_path"}, Reliable)
    \/ ReadGhostMulti({"", "out"}, Reliable)
    \/ ReadGhost({"", "zip_path"}, Reliable)
Spec == Init /\ [][Next]_vars

(* ------------------- files the library did not write -------------------- *)
(* Readers and updaters called on whatever lies at zip_path: an archive of *)
(* the library with one byte changed, a cut-off archive, other content.    *)
OneFileSrc == <<"hello">>
OneFileArc == <<Name_a_txt>>
BaseArchive == created_multi[<<OneFileSrc, OneFileArc, MetaTwo>>].file.bytes
\* The offsets of the bytes ghost validation looks at, the count excepted.
ValidatedAt == (0..3) \cup (26..43)
ForeignFiles ==
    {BaseArchive}
    \cup {Poke(BaseArchive, k, <<(BaseArchive[k + 1] + 1) % 256>>) :
             k \in ValidatedAt}
    \cup {Poke(BaseArchive, 44, <<c>>) : c \in {0, 7, 8, 255}}
    \cup {Poke(BaseArchive, k, <<255>>) : k \in {4, 14, 45, 47, 48, 159, 160}}
    \cup {SubSeq(BaseArchive, 1, n) : n \in {0, 16, 159, TACO_GHOST_SIZE}}
    \cup {Poke(BaseArchive, 0, <<0, 0, 0, 0>>),
          Zeros(16) \o <<>>, Zeros(TACO_GHOST_SIZE) \o <<>>}
\* An fread that gives 100 bytes and fails.
ShortRead == [k |-> 2, n |-> 100]

InitRead ==
    /\ srcs = OneFileSrc /\ arcs = OneFileArc
    /\ \E b \in ForeignFiles : disk = [exists |-> TRUE, bytes |-> b]
    /\ op = NoOp
    /\ res = NoRes
    /\ CrcInit
NextRead ==
    \/ ReadGhostMulti({""}, {NoFault, ShortRead})
    \/ ReadGhost({""}, Reliable)
    \/ UpdateGhostMulti({MetaHole}, {""}, Reliable)
    \/ UpdateGhost({<<V(100), V(50)>>}, {""}, Reliable)
SpecRead == InitRead /\ [][NextRead]_vars

(* ------------------------ an unreliable environment --------------------- *)
(* Updates of an archive in an environment where one library call of the   *)
(* update may fail: the k-th, moving no byte or, for the fwrite of the     *)
(* second pair, half of it.                                                *)
UpdateFaults == {[k |-> k, n |-> 0] : k \in 0..13} \cup {[k |-> 7, n |-> 8]}
LegacyUpdateFaults == {[k |-> k, n |-> 0] : k \in 0..15}
InitFault ==
    /\ srcs = OneFileSrc /\ arcs = OneFileArc
    /\ disk = NoFile
    /\ op = NoOp
    /\ res = NoRes
    /\ CrcInit
NextFault ==
    \/ CreateMulti({MetaZero}, {""}, Reliable)
    \/ UpdateGhostMulti({MetaTwo}, {""}, UpdateFaults)
    \/ UpdateGhostMulti({MetaZero}, BadUpdateMulti, Reliable)
    \/ UpdateGhost({<<V(100), V(50)>>}, {"", "zip_path"}, LegacyUpdateFaults)
    \/ ReadGhostMulti({""}, Reliable)
SpecFault == InitFault /\ [][NextFault]_vars

(* --------------------------- argument checking -------------------------- *)
(* Calls of tacozip_create_multi with arguments at and beyond what it      *)
(* accepts: a null pointer argument, num_files of 0, an array_size other   *)
(* than 7, a null element of src_files or arc_files, and archive names of  *)
(* 0xFFFF and 0x10000 bytes.                                               *)
NullJobs == {<<<<NULL_PATH, Name_a_txt>>>>,
             <<<<"hello", NULL_NAME>>>>,
             <<<<"hello", Name_a_txt>>, <<NULL_PATH, Name_e>>>>,
             <<<<"abcd", Name_sub_y>>, <<"hello", NULL_NAME>>>>}
LongJobs == {<<<<"hello", LongArc(U16Max)>>>>,
             <<<<"hello", LongArc(U16Max + 1)>>>>,
             <<<<"abcd", Name_sub_y>>, <<"hello", LongArc(U16Max + 1)>>>>}
ParamJobs == Jobs \cup NullJobs \cup LongJobs
InitParam ==
    /\ \E job \in ParamJobs : srcs = JobSrc(job) /\ arcs = JobArc(job)
    /\ disk = NoFile
    /\ op = NoOp
    /\ res = NoRes
    /\ CrcInit
NextParam ==
    \/ CreateMulti({MetaZero, MetaTwo}, {""}, Reliable)
    \/ CreateMulti({MetaTwo}, BadCreateMulti, Reliable)
    \/ Create({<<V(100), V(50)>>}, {""} \cup BadCreate, Reliable)
SpecParam == InitParam /\ [][NextParam]_vars

(* -------------------------- failing source reads ------------------------ *)
(* Creates in an environment where one library call of the create may      *)
(* fail: the k-th, which for a read or a write still moves no byte, one    *)
(* byte or a whole copy buffer.                                            *)
CreateFaults ==
    {[k |-> k, n |-> n] : k \in 1..28, n \in {0, 1, TACOZ_COPY_BUFSZ}}
    \cup {NoFault}
SrcFaultJobs == {<<<<"hello", Name_a_txt>>>>,
                 <<<<"abcd", Name_sub_y>>, <<"hello", Name_a_txt>>>>,
                 <<<<"empty", Name_e>>, <<"abcd", Name_sub_y>>>>,
                 <<<<"abcd", Name_sub_y>>, <<"hello", NULL_NAME>>>>}
InitSrcFault ==
    /\ \E job \in SrcFaultJobs : srcs = JobSrc(job) /\ arcs = JobArc(job)
    /\ disk = NoFile
    /\ op = NoOp
    /\ res = NoRes
    /\ CrcInit
NextSrcFault ==
    \/ CreateMulti({MetaTwo}, {""}, CreateFaults)
    \/ Create({<<V(100), V(50)>>}, {""}, {f \in CreateFaults : f.n = 0})
SpecSrcFault == InitSrcFault /\ [][NextSrcFault]_vars

(* ------------------------------ two threads ---------------------------- *)
(* Two threads in add_file at the same time, each on an archive and a      *)
(* builder of its own.  What they share is the static flag and table of    *)
(* the CRC code; a step is one statement of crc32_init_table or one turn   *)
(* of the loop of crc32_update_stream.                                     *)
\* if (inited) return;
InitTableCheck(t) ==
    /\ thr[t].pc = "crc32_init_table"
    /\ thr' = [thr EXCEPT ![t].pc = IF inited # 0 THEN "crc32_update_stream"
                                    ELSE "inited_set"]
    /\ UNCHANGED <<srcs, arcs, disk, op, res, inited, tab>>
\* inited = 1;
InitTableSet(t) ==
    /\ thr[t].pc = "inited_set"
    /\ inited' = 1
    /\ thr' = [thr EXCEPT ![t].pc = "fill", ![t].i = 0]
    /\ UNCHANGED <<srcs, arcs, disk, op, res, tab>>
\* crc32_tab[i] = c, for the i of this turn of the loop
InitTableFill(t) ==
    /\ thr[t].pc = "fill"
    /\ tab' = [tab EXCEPT ![thr[t].i + 1] =
                   crc32_tab_entry(<<thr[t].i, 0>>, 0)]
    /\ thr' = [thr EXCEPT ![t].i = @ + 1,
                          ![t].pc = IF thr[t].i + 1 = CRC_TAB_SIZE
                                    THEN "crc32_update_stream" ELSE "fill"]
    /\ UNCHANGED <<srcs, arcs, disk, op, res, inited>>
\* The entries of the table that some thread has written.
Populated(idx) == \E u \in Threads : idx < thr[u].i
\* crc = crc32_tab[(crc ^ buf[i]) & 0xFF] ^ (crc >> 8), for the next byte
UpdateStreamByte(t) ==
    /\ thr[t].pc = "crc32_update_stream"
    /\ thr[t].in # <<>>
    /\ LET idx == XorBits(thr[t].crc[1] % 256, Head(thr[t].in), 8)
       IN  thr' = [thr EXCEPT
                      ![t].crc = Xor32(tab[idx + 1], Shr32(thr[t].crc, 8)),
                      ![t].in = Tail(@),
                      ![t].stale = @ \/ ~Populated(idx)]
    /\ UNCHANGED <<srcs, arcs, disk, op, res, inited, tab>>
\* crc ^= 0xFFFFFFFF, the source file read to its end
UpdateStreamDone(t) ==
    /\ thr[t].pc = "crc32_update_stream"
    /\ thr[t].in = <<>>
    /\ thr' = [thr EXCEPT ![t].crc = Xor32(@, ALL_ONES_32), ![t].pc = "done"]
    /\ UNCHANGED <<srcs, arcs, disk, op, res, inited, tab>>
NextCrc ==
    \/ \E t \in Threads : InitTableCheck(t)
    \/ \E t \in Threads : InitTableSet(t)
    \/ \E t \in Threads : InitTableFill(t)
    \/ \E t \in Threads : UpdateStreamByte(t)
    \/ \E t \in Threads : UpdateStreamDone(t)
SpecCrc == InitFault /\ [][NextCrc]_vars

(* ============================== properties ============================== *)
\* Valid arguments of the two readers.
ReadArgs == [zip_path_null |-> FALSE, out_null |-> FALSE]
\* What tacozip_read_ghost_multi returns on the file as it is now.
ReadNow == tacozip_read_ghost_multi(disk, ReadArgs, NoFault, PrevMeta)
\* The number of leading pairs that are not (0,0).
LeadingLive(offsets, lengths) ==
    Cardinality({n \in 1..TACO_GHOST_MAX_ENTRIES :
                    \A m \in 1..n : offsets[m] # Zero64 \/ lengths[m] # Zero64})
\* The reader gives back the seven pairs of the arrays and their count.
ReadsBack(offsets, lengths) ==
    /\ ReadNow.rc = TACOZ_OK
    /\ \A i \in 1..TACO_GHOST_MAX_ENTRIES :
          ReadNow.out.entries[i] = [offset |-> offsets[i], length |-> lengths[i]]
    /\ ReadNow.out.count = LeadingLive(offsets, lengths)
Succeeded(name) == op.name = name /\ res.rc = TACOZ_OK

Surroundings(bytes) ==
    <<At(bytes, 0, 44), SubSeq(bytes, TACO_GHOST_SIZE + 1, Len(bytes))>>
\* C3: a successful tacozip_update_ghost_multi or tacozip_update_ghost
\* changes no byte of [0..44), no byte at offset 160 or beyond, and not the
\* file length.
C3_UpdatePreservesSurroundings ==
    [][(op'.name \in {"update_ghost_multi", "update_ghost"}
        /\ res'.rc = TACOZ_OK)
       => /\ Len(disk'.bytes) = Len(disk.bytes)
          /\ Surroundings(disk'.bytes) = Surroundings(disk.bytes)]_vars
\* A legacy update that put a new first pair into the ghost of an archive
\* with entries and a central directory behind it.
C3_Witness ==
    /\ Succeeded("update_ghost")
    /\ op.offsets = <<V(100)>>
    /\ ReadNow.out.entries[1].offset = V(100)
    /\ Len(disk.bytes) > TACO_GHOST_SIZE + 98

(* ------------------------- the archive, as read ------------------------- *)
(* What a ZIP64 reader finds in a file image b, going from the end: the    *)
(* classic EOCD in the last 22 bytes, the ZIP64 locator in the 20 before   *)
(* it, the ZIP64 EOCD where the locator points, the central directory      *)
(* where the ZIP64 EOCD points.                                            *)
\* The little-endian number in a byte sequence.
RECURSIVE Num(_)
Num(bs) == IF bs = <<>> THEN 0 ELSE Head(bs) + 256 * Num(Tail(bs))
Field(b, off, len) == Num(At(b, off, len))
IsSig(b, off, sig) == At(b, off, 4) = le32(sig)
LocatorPos(b) == Len(b) - 22 - 20
Zip64EocdPos(b) == Field(b, LocatorPos(b) + 8, 8)
EntriesOnDisk(b) == Field(b, Zip64EocdPos(b) + 24, 8)
EntriesTotal(b) == Field(b, Zip64EocdPos(b) + 32, 8)
CdSize(b) == Field(b, Zip64EocdPos(b) + 40, 8)
CdStart(b) == Field(b, Zip64EocdPos(b) + 48, 8)
\* The central-directory record at pos: its fields, those of its ZIP64
\* extra, and where it ends.
CdRecord(b, pos) ==
    [pos     |-> pos,
     sig_ok  |-> IsSig(b, pos, SIG_CDFH),
     crc     |-> At(b, pos + 16, 4),
     name    |-> At(b, pos + 46, Field(b, pos + 28, 2)),
     uncomp  |-> Field(b, pos + 46 + Field(b, pos + 28, 2) + 4, 8),
     comp    |-> Field(b, pos + 46 + Field(b, pos + 28, 2) + 12, 8),
     lfh_off |-> Field(b, pos + 46 + Field(b, pos + 28, 2) + 20, 8),
     end     |-> pos + 46 + Field(b, pos + 28, 2) + Field(b, pos + 30, 2)]
\* The n records from pos on.
RECURSIVE CdRecords(_, _, _)
CdRecords(b, pos, n) ==
    IF n = 0 \/ pos + 46 > Len(b) THEN <<>>
    ELSE <<CdRecord(b, pos)>> \o CdRecords(b, CdRecord(b, pos).end, n - 1)
CentralDirectory(b) == CdRecords(b, CdStart(b), EntriesTotal(b))
\* Where the data descriptor of the entry of record e is.
DdPos(e) == e.lfh_off + 30 + Len(e.name) + e.comp
CreateSucceeded == Succeeded("create") \/ Succeeded("create_multi")
SourceLen(i) == Len(SrcFS[srcs[i]])

RECURSIVE CdBlocks(_)
CdBlocks(i) == IF i = 0 THEN 0 ELSE 46 + Len(arcs[i]) + 28 + CdBlocks(i - 1)
C6_OffsetAccounting ==
    CreateSucceeded =>
        LET b  == disk.bytes
            cd == CentralDirectory(disk.bytes)
        IN  /\ Len(cd) = Len(srcs)
            /\ \A i \in 1..Len(cd) :
                  /\ IsSig(b, cd[i].lfh_off, SIG_LFH)
                  /\ Field(b, cd[i].lfh_off + 26, 2) = Len(arcs[i])
                  /\ At(b, cd[i].lfh_off + 30, Len(arcs[i])) = arcs[i]
                  /\ At(b, cd[i].lfh_off + 30 + Len(arcs[i]), SourceLen(i))
                        = SrcFS[srcs[i]]
            /\ IsSig(b, CdStart(b), SIG_CDFH)
            /\ cd[1].pos = CdStart(b)
            /\ CdStart(b) = DdPos(cd[Len(cd)]) + 24
            /\ CdSize(b) = CdBlocks(Len(srcs))
            /\ Zip64EocdPos(b) = CdStart(b) + CdSize(b)
            /\ IsSig(b, Zip64EocdPos(b), SIG_ZIP64_EOCD)
            /\ IsSig(b, LocatorPos(b), SIG_ZIP64_LOCATOR)
\* An archive of two files, the second entry behind a first with data.
C6_Witness ==
    /\ Succeeded("create_multi")
    /\ srcs = <<"abcd", "hello">>
    /\ CentralDirectory(disk.bytes)[2].lfh_off = TACO_GHOST_SIZE + 30 + 5 + 4 + 24
    /\ CdStart(disk.bytes) = TACO_GHOST_SIZE + 63 + 64

(* ------------------------- the archive, in order ------------------------ *)
\* Where the entries i..N end when entry i starts at p and each is LFH,
\* archive name, the source's bytes, data descriptor, one right after the
\* other; -1 when the file does not hold that.
RECURSIVE EntriesEnd(_, _, _)
EntriesEnd(b, p, i) ==
    IF i > Len(srcs) THEN p
    ELSE IF /\ IsSig(b, p, SIG_LFH)
            /\ At(b, p + 30, Len(arcs[i])) = arcs[i]
            /\ At(b, p + 30 + Len(arcs[i]), SourceLen(i)) = SrcFS[srcs[i]]
            /\ IsSig(b, p + 30 + Len(arcs[i]) + SourceLen(i), SIG_DD)
         THEN EntriesEnd(b, p + 30 + Len(arcs[i]) + SourceLen(i) + 24, i + 1)
         ELSE -1
\* The same for the central-directory blocks i..N: CDFH, name, ZIP64 extra.
RECURSIVE BlocksEnd(_, _, _)
BlocksEnd(b, p, i) ==
    IF i > Len(srcs) THEN p
    ELSE IF /\ p >= 0 /\ IsSig(b, p, SIG_CDFH)
            /\ At(b, p + 46, Len(arcs[i])) = arcs[i]
            /\ At(b, p + 46 + Len(arcs[i]), 4) = <<1, 0, 24, 0>>
         THEN BlocksEnd(b, p + 46 + Len(arcs[i]) + 28, i + 1)
         ELSE -1
\* The file is a ghost record of g bytes, the entries, the central
\* directory, ZIP64 EOCD (56), locator (20) and classic EOCD (22), with
\* nothing in between and nothing behind.
LaidOut(b, g) ==
    /\ IsSig(b, 0, SIG_LFH) /\ At(b, 30, TACO_GHOST_NAME_LEN) = TACO_GHOST_NAME
    /\ LET e == BlocksEnd(b, EntriesEnd(b, g, 1), 1)
       IN  /\ e >= 0
           /\ IsSig(b, e, SIG_ZIP64_EOCD)
           /\ IsSig(b, e + 56, SIG_ZIP64_LOCATOR)
           /\ IsSig(b, e + 56 + 20, SIG_EOCD)
           /\ Len(b) = e + 56 + 20 + 22
RECURSIVE PerFileBytes(_)
PerFileBytes(i) ==
    IF i = 0 THEN 0
    ELSE (30 + Len(arcs[i]) + SourceLen(i) + 24 + 46 + Len(arcs[i]) + 28)
         + PerFileBytes(i - 1)
\* The ghost size the two layouts of the specification state for an
\* archive of the last create: 64 for the single pair, 160 for seven.
StatedGhostSize == IF op.name = "create" THEN 64 ELSE 160

\* C7, as stated: a successful create writes the ghost, the entries, the
\* central directory and the three end records in this order with nothing
\* in between, and the file is ghost_size + the per-file bytes + 98 long,
\* with a 64-byte ghost for a single pair (305 bytes for one 5-byte file
\* named a.txt).
C7_LayoutAsStated ==
    CreateSucceeded =>
        /\ LaidOut(disk.bytes, StatedGhostSize)
        /\ Len(disk.bytes) = StatedGhostSize + PerFileBytes(Len(srcs)) + 98
\* C7, amended: the same with a ghost of TACO_GHOST_SIZE = 160 bytes after
\* tacozip_create as well as after tacozip_create_multi (401 bytes for one
\* 5-byte file named a.txt).
C7_Layout ==
    CreateSucceeded =>
        /\ LaidOut(disk.bytes, TACO_GHOST_SIZE)
        /\ Len(disk.bytes) = TACO_GHOST_SIZE + PerFileBytes(Len(srcs)) + 98
\* The archive of one 5-byte file named a.txt, ghost pair (100, 50).
C7_Witness ==
    /\ Succeeded("create")
    /\ srcs = <<"hello">> /\ arcs = <<Name_a_txt>>
    /\ op.offsets = <<V(100)>> /\ op.lengths = <<V(50)>>
    /\ Len(disk.bytes) = 401

\* The value of a uint64_t below 2^31.
Nat64(v) == v[1] + 65536 * v[2]
\* The entry list of the last create obeys the offset rules when its first
\* entry lies at byte g.
EntryOffsetsFrom(g) ==
    /\ Len(res.ents) = Len(srcs)
    /\ Nat64(res.ents[1].lfh_offset) = g
    /\ \A i \in 1..(Len(res.ents) - 1) :
          Nat64(res.ents[i + 1].lfh_offset)
             = Nat64(res.ents[i].lfh_offset) + 30 + Len(res.ents[i].name)
               + Nat64(res.ents[i].comp_size) + 24
    /\ \A i, j \in 1..Len(res.ents) :
          i < j => Nat64(res.ents[i].lfh_offset) < Nat64(res.ents[j].lfh_offset)
\* C8, as stated: in the entry list built by create the offsets grow
\* strictly in insertion order, lfh_offset[i+1] = lfh_offset[i] + 30 +
\* name_len_i + size_i + 24, and lfh_offset[0] is the ghost size, 64 for
\* the single pair and 160 for seven.
C8_OffsetsAsStated == CreateSucceeded => EntryOffsetsFrom(StatedGhostSize)
\* C8, amended: the same with lfh_offset[0] = TACO_GHOST_SIZE = 160 after
\* tacozip_create as well as after tacozip_create_multi.
C8_Offsets == CreateSucceeded => EntryOffsetsFrom(TACO_GHOST_SIZE)
\* Two entries built by the single-pair create, the first with data.
C8_Witness ==
    /\ Succeeded("create")
    /\ srcs = <<"abcd", "empty">>
    /\ Len(res.ents) = 2
    /\ res.ents[2].lfh_offset = U64(160 + 30 + 5 + 4 + 24)

\* C9: whenever the archive exists (it was made by a successful create and
\* has since seen only updates), its first TACO_GHOST_SIZE bytes pass ghost
\* validation: bytes 0..3 are 0x04034B50, the name length is 10 and the
\* extra length 116, bytes 30..39 are TACO_GHOST, the extra id is 0x7454
\* and its data size 112, the count is at most 7; and
\* tacozip_read_ghost_multi does not return invalid-ghost.
C9_GhostValid ==
    disk.exists =>
        /\ Len(disk.bytes) >= TACO_GHOST_SIZE
        /\ At(disk.bytes, 0, 4) = <<80, 75, 3, 4>>
        /\ At(disk.bytes, 26, 4) = <<10, 0, 116, 0>>
        /\ At(disk.bytes, 30, 10) = <<84, 65, 67, 79, 95, 71, 72, 79, 83, 84>>
        /\ At(disk.bytes, 40, 4) = <<84, 116, 112, 0>>
        /\ disk.bytes[45] <= 7
        /\ validate_ghost_buf_multi(At(disk.bytes, 0, TACO_GHOST_SIZE))
              = TACOZ_OK
        /\ ReadNow.rc = TACOZ_OK
\* A ghost that create_multi wrote with a (0,0) pair at index 1 and a later
\* tacozip_update_ghost emptied at index 0.
C9_Witness ==
    /\ Succeeded("update_ghost")
    /\ op.offsets = <<Zero64>> /\ op.lengths = <<Zero64>>
    /\ ReadNow.out.count = 0
    /\ ReadNow.out.entries[3] = [offset |-> V(7), length |-> V(9)]

\* C4: an update (tacozip_update_ghost_multi or tacozip_update_ghost) that
\* returns a status other than TACOZ_OK, be it for a parameter, an invalid
\* ghost or the failure of the open, the read, a seek, one of the eight
\* writes or the close, leaves the file byte-identical to what it was
\* before the call.
C4_FailedUpdateLeavesFile ==
    [][(op'.name \in {"update_ghost_multi", "update_ghost"}
        /\ res'.rc # TACOZ_OK)
       => disk' = disk]_vars

\* What the ghost validation has to find in the first TACO_GHOST_SIZE
\* bytes of a file image, field by field.
GhostFieldsOk(b) ==
    /\ At(b, 0, 4) = <<80, 75, 3, 4>>                \* LFH signature
    /\ At(b, 26, 2) = <<10, 0>>                      \* name length 10
    /\ At(b, 28, 2) = <<116, 0>>                     \* extra length
    /\ At(b, 30, 10) = <<84, 65, 67, 79, 95, 71, 72, 79, 83, 84>>
    /\ At(b, 40, 2) = <<84, 116>>                    \* extra id 0x7454
    /\ At(b, 42, 2) = <<112, 0>>                     \* extra data size
    /\ b[45] <= 7                                    \* count
\* The status the claim states for a file image of which avail bytes can
\* be read.
StatedStatus(b, avail) ==
    IF avail < TACO_GHOST_SIZE THEN TACOZ_ERR_IO
    ELSE IF ~GhostFieldsOk(b) THEN TACOZ_ERR_INVALID_GHOST
    ELSE TACOZ_OK
\* The eight bytes at off as a uint64_t, least significant byte first.
Decoded(b, off) ==
    [k \in 1..4 |-> b[off + 2 * k - 1] + 256 * b[off + 2 * k]]
\* C10: for any file content, tacozip_read_ghost_multi returns an I/O error
\* when fewer than TACO_GHOST_SIZE bytes can be read, whatever they are;
\* otherwise invalid-ghost exactly when one of signature, name length,
\* extra length, name, extra id, extra data size and count <= 7 fails;
\* otherwise TACOZ_OK with the count byte and the seven pairs decoded
\* little-endian.  The validation phase of tacozip_update_ghost_multi
\* returns the same status.
C10_ReadOutcome ==
    /\ (op.name = "read_ghost_multi" /\ op.bad = "") =>
          /\ res.rc = StatedStatus(disk.bytes,
                                   IF op.fault.k = 2
                                   THEN Min(op.fault.n, Len(disk.bytes))
                                   ELSE Len(disk.bytes))
          /\ res.rc = TACOZ_OK =>
                /\ res.out.count = disk.bytes[45]
                /\ \A i \in 1..TACO_GHOST_MAX_ENTRIES :
                      /\ res.out.entries[i].offset
                            = Decoded(disk.bytes, 48 + 16 * (i - 1))
                      /\ res.out.entries[i].length
                            = Decoded(disk.bytes, 48 + 16 * (i - 1) + 8)
    /\ tacozip_update_ghost_multi(
           disk,
           [zip_path_null |-> FALSE, offsets_null |-> FALSE,
            lengths_null |-> FALSE, array_size |-> TACO_GHOST_MAX_ENTRIES,
            offsets |-> MetaHole[1], lengths |-> MetaHole[2]],
           NoFault).rc = StatedStatus(disk.bytes, Len(disk.bytes))
\* A read of a file that differs from a valid archive in the extra data
\* size alone.
C10_Witness ==
    /\ op.name = "read_ghost_multi" /\ op.fault = NoFault
    /\ res.rc = TACOZ_ERR_INVALID_GHOST
    /\ disk.bytes = Poke(BaseArchive, 42, <<113>>)

\* C11: in every archive that tacozip_create_multi, tacozip_create,
\* tacozip_update_ghost_multi or tacozip_update_ghost has produced, the
\* ghost stores seven pairs and every stored pair at an index at or beyond
\* the stored count is (0,0).
C11_UnusedPairsZero ==
    (op.name \in {"create_multi", "create", "update_ghost_multi",
                  "update_ghost"} /\ res.rc = TACOZ_OK) =>
        /\ Len(disk.bytes) >= 48 + 16 * TACO_GHOST_MAX_ENTRIES
        /\ \A i \in 0..(TACO_GHOST_MAX_ENTRIES - 1) :
              i >= disk.bytes[45] => At(disk.bytes, 48 + 16 * i, 16) = Zeros(16)

\* C12, as stated: a successful tacozip_update_ghost_multi on an archive as
\* create wrote it leaves bytes [44..48), the count byte and the three pad
\* bytes, as create wrote them.
C12_CountRegionAsStated ==
    [][(op.name \in {"create_multi", "create"} /\ res.rc = TACOZ_OK
        /\ op'.name = "update_ghost_multi" /\ res'.rc = TACOZ_OK)
       => At(disk'.bytes, 44, 4) = At(disk.bytes, 44, 4)]_vars
\* C12: a successful tacozip_update_ghost_multi leaves the three pad bytes
\* [45..48) as they were, which is zero as create wrote them, and sets the
\* count byte at offset 44 to the number of leading non-(0,0) pairs of its
\* input.
C12_PadBytes ==
    [][(op'.name = "update_ghost_multi" /\ res'.rc = TACOZ_OK)
       => /\ At(disk'.bytes, 45, 3) = At(disk.bytes, 45, 3)
          /\ At(disk'.bytes, 45, 3) = <<0, 0, 0>>
          /\ disk'.bytes[45] = LeadingLive(op'.offsets, op'.lengths)]_vars
\* An update with two live pairs, whose first offset has a non-zero low
\* byte, on an archive of two files.
C12_Witness ==
    /\ Succeeded("update_ghost_multi")
    /\ op.offsets = MetaTwo[1] /\ op.lengths = MetaTwo[2]
    /\ At(disk.bytes, 44, 4) = <<2, 0, 0, 0>>
    /\ At(disk.bytes, 48, 1) = <<10>>
    /\ Len(srcs) = 2

\* The arguments of the last create call held a null element, or an archive
\* name longer than 0xFFFF bytes.
HasNullElement ==
    \E i \in 1..Len(srcs) : srcs[i] = NULL_PATH \/ arcs[i] = NULL_NAME
HasLongName ==
    \E i \in 1..Len(arcs) : IsLongArc(arcs[i]) /\ arcs[i][2] > 65535
\* C13: tacozip_create_multi returns TACOZ_ERR_PARAM when zip_path,
\* src_files, arc_files, meta_offsets or meta_lengths is null, when
\* num_files is 0 or array_size is not 7, and then leaves the file at
\* zip_path as it was; it returns TACOZ_ERR_PARAM when an element of
\* src_files or arc_files is null and when an archive name is longer than
\* 65535 bytes; with none of these, a name of exactly 65535 bytes included,
\* it succeeds (the source files exist and no library call fails).
C13_CreateParamErrors ==
    [][op'.name = "create_multi" =>
          /\ op'.bad \in BadCreateMulti =>
                res'.rc = TACOZ_ERR_PARAM /\ disk' = disk
          /\ (HasNullElement \/ HasLongName) => res'.rc = TACOZ_ERR_PARAM
          /\ (op'.bad = "" /\ ~HasNullElement /\ ~HasLongName) =>
                res'.rc = TACOZ_OK]_vars
\* An archive of two files, written by a successful create and left as it
\* was by a call with an array_size of 8.
C13_Witness ==
    /\ op.name = "create_multi" /\ op.bad = "array_size"
    /\ res.rc = TACOZ_ERR_PARAM
    /\ Len(srcs) = 2 /\ ~HasNullElement /\ ~HasLongName
    /\ disk.exists /\ EntriesTotal(disk.bytes) = 2

\* A file that was at zip_path before the call: longer than any archive
\* of the model, none of its bytes one that create writes there.
PriorFile == [exists |-> TRUE, bytes |-> [i \in 1..1024 |-> 255]]
\* The last create call, run again with the same arguments on the same
\* source files, zip_path holding PriorFile.
CreateAgain ==
    IF op.name = "create_multi"
    THEN tacozip_create_multi(
             PriorFile,
             CreateMultiArgs(srcs, ArcNames(arcs), <<op.offsets, op.lengths>>,
                             ""),
             NoFault)
    ELSE tacozip_create(
             PriorFile,
             CreateArgs(srcs, ArcNames(arcs), <<op.offsets[1], op.lengths[1]>>,
                        ""),
             NoFault)
\* C14: a second run of a successful create with identical arguments and
\* identical source files gives a byte-identical archive, whatever zip_path
\* held before and whatever calls came before; and the DOS time and date
\* fields of every local header and central-directory record are 0.
C14_Deterministic ==
    CreateSucceeded =>
        /\ CreateAgain.rc = TACOZ_OK
        /\ CreateAgain.file = disk
        /\ \A i \in 1..Len(res.ents) :
              LET e == CentralDirectory(disk.bytes)[i]
              IN  /\ At(disk.bytes, e.lfh_off + 10, 4) = <<0, 0, 0, 0>>
                  /\ At(disk.bytes, e.pos + 12, 4) = <<0, 0, 0, 0>>
\* An archive of two files that tacozip_create_multi wrote with two live
\* pairs, and writes again byte for byte over a file of 1024 other bytes.
C14_Witness ==
    /\ Succeeded("create_multi")
    /\ op.offsets = MetaTwo[1]
    /\ srcs = <<"hello", "abcd">>
    /\ Len(disk.bytes) = 543
    /\ Len(res.ents) = 2

\* What tacozip_read_ghost returns on the file as it is now.
ReadLegacyNow == tacozip_read_ghost(disk, ReadArgs, NoFault, PrevPtr)
\* C15: tacozip_read_ghost after a successful tacozip_create(offset,
\* length) returns (offset, length), after a successful
\* tacozip_update_ghost(o2, l2) returns (o2, l2), and on every archive that
\* the create and update operations have left returns the pair that
\* tacozip_read_ghost_multi returns as entries[0].
C15_LegacyRoundTrip ==
    /\ (Succeeded("create") \/ Succeeded("update_ghost")) =>
          /\ ReadLegacyNow.rc = TACOZ_OK
          /\ ReadLegacyNow.out = [offset |-> op.offsets[1],
                                  length |-> op.lengths[1]]
    /\ disk.exists =>
          /\ ReadNow.rc = TACOZ_OK /\ ReadLegacyNow.rc = TACOZ_OK
          /\ ReadLegacyNow.out = ReadNow.out.entries[1]
\* A pair with offset 0 and length 5, put by the legacy update in front of
\* the second pair of an archive that tacozip_create_multi wrote.
C15_Witness ==
    /\ Succeeded("update_ghost")
    /\ op.offsets = <<Zero64>> /\ op.lengths = <<V(5)>>
    /\ ReadNow.out.count = 2
    /\ ReadNow.out.entries[2] = [offset |-> V(20), length |-> V(2)]
    /\ ReadLegacyNow.out = [offset |-> Zero64, length |-> V(5)]

\* The seven pairs and the count that tacozip_read_ghost_multi finds in a
\* file.
GhostOf(file) == tacozip_read_ghost_multi(file, ReadArgs, NoFault, PrevMeta)
C17_EmptyFileEntry ==
    CreateSucceeded =>
        LET b  == disk.bytes
            cd == CentralDirectory(disk.bytes)
        IN  /\ Len(cd) = Len(srcs)
            /\ \A i \in 1..Len(cd) :
                  SourceLen(i) = 0 =>
                     /\ cd[i].crc = <<0, 0, 0, 0>>
                     /\ cd[i].comp = 0 /\ cd[i].uncomp = 0
                     /\ IsSig(b, cd[i].lfh_off, SIG_LFH)
                     /\ At(b, cd[i].lfh_off + 30, Len(arcs[i])) = arcs[i]
                     /\ IsSig(b, cd[i].lfh_off + 30 + Len(arcs[i]), SIG_DD)
                     /\ At(b, cd[i].lfh_off + 30 + Len(arcs[i]) + 4, 20)
                           = Zeros(20)
                     /\ cd[i].lfh_off + 30 + Len(arcs[i]) + 24
                           = IF i < Len(cd) THEN cd[i + 1].lfh_off
                             ELSE CdStart(b)
\* An archive whose first file is empty and whose second is not.
C17_Witness ==
    /\ Succeeded("create_multi")
    /\ srcs = <<"empty", "abcd">>
    /\ CentralDirectory(disk.bytes)[1].crc = <<0, 0, 0, 0>>
    /\ CentralDirectory(disk.bytes)[2].lfh_off = TACO_GHOST_SIZE + 30 + 1 + 24
    /\ CentralDirectory(disk.bytes)[2].comp = 4

\* C18: with two threads in create at the same time, no thread reads an
\* entry of the CRC table in crc32_update_stream before that entry has
\* been written, and the CRC each thread ends with is the CRC-32 of its
\* source file, as a run of its own gives it.
C18_TableReadyBeforeUse ==
    \A t \in Threads :
       /\ ~thr[t].stale
       /\ thr[t].pc = "done" =>
             thr[t].crc = Xor32(crc32_update_stream(ALL_ONES_32,
                                                    SrcFS[ThreadSrc[t]]),
                                ALL_ONES_32)

\* The last create call once more, on the same source files and with the
\* same fault: what it returned and the builder it ended with.
LastCreate ==
    IF op.name = "create_multi"
    THEN tacozip_create_multi(
             NoFile,
             CreateMultiArgs(srcs, ArcNames(arcs), <<op.offsets, op.lengths>>,
                             op.bad),
             op.fault)
    ELSE tacozip_create(
             NoFile,
             CreateArgs(srcs, ArcNames(arcs), <<op.offsets[1], op.lengths[1]>>,
                        op.bad),
             op.fault)
\* A read of a source file failed in the last create call.
SourceReadFailed ==
    /\ op.name \in {"create_multi", "create"}
    /\ LastCreate.w.in_err
\* The bytes of the entries 1..n: LFH, name, data and data descriptor.
RECURSIVE DoneBytes(_)
DoneBytes(n) ==
    IF n = 0 THEN 0
    ELSE 30 + Len(arcs[n]) + SourceLen(n) + 24 + DoneBytes(n - 1)
\* C19: when a read of a source file fails in add_file's copy loop, with no
\* byte, part of a chunk or a whole chunk read, create returns
\* TACOZ_ERR_IO; the entry list holds only the files before that one, and
\* behind their entries the file holds the LFH and name of the failing
\* file and a prefix of its data, and then no data descriptor, no central
\* directory and no EOCD record (nothing but the zero bytes of the
\* preallocation).
C19_ReadFailureStopsEntry ==
    SourceReadFailed =>
        /\ res.rc = TACOZ_ERR_IO
        /\ Len(res.ents) < Len(srcs)
        /\ LET b == disk.bytes
               n == Len(res.ents) + 1
               p == TACO_GHOST_SIZE + DoneBytes(Len(res.ents))
           IN  /\ \A i \in 1..(n - 1) : res.ents[i].name = arcs[i]
               /\ IsSig(b, p, SIG_LFH)
               /\ At(b, p + 30, Len(arcs[n])) = arcs[n]
               /\ \E k \in 0..SourceLen(n) :
                     /\ At(b, p + 30 + Len(arcs[n]), k)
                           = SubSeq(SrcFS[srcs[n]], 1, k)
                     /\ \A j \in (p + 30 + Len(arcs[n]) + k + 1)..Len(b) :
                           b[j] = 0
\* The first read of the second file fails after it has filled the copy
\* buffer: the chunk is in the file, the entry list holds the first file.
C19_Witness ==
    /\ SourceReadFailed
    /\ srcs = <<"abcd", "hello">>
    /\ op.fault.n = TACOZ_COPY_BUFSZ
    /\ Len(res.ents) = 1
    /\ res.rc = TACOZ_ERR_IO
    /\ At(disk.bytes, TACO_GHOST_SIZE + DoneBytes(1) + 30 + 5, 2) = <<104, 101>>

\* In a log L of what a call acquired and released, in order: how often
\* ev is in it and where.
Count(L, ev) == Cardinality({j \in 1..Len(L) : L[j] = ev})
Pos(L, ev) == CHOOSE j \in 1..Len(L) : L[j] = ev
\* Whatever acq acquired is released by rel, once and later, and rel
\* releases nothing else.
Paired(L, acq, rel) ==
    /\ Count(L, acq) <= 1 /\ Count(L, rel) = Count(L, acq)
    /\ Count(L, acq) = 1 => Pos(L, acq) < Pos(L, rel)
\* Every handle and buffer of log L, for a call with n files, is released
\* once, and none before the output handle is closed, which it is once.
Released(L, n) ==
    /\ Count(L, <<"fclose_out", 0>>) = 1
    /\ \A j \in 1..Len(L) :
          L[j][1] \in {"free_out_buf", "free_buf", "free_name", "free_ents"}
             => Pos(L, <<"fclose_out", 0>>) < j
    /\ Paired(L, <<"malloc_out_buf", 0>>, <<"free_out_buf", 0>>)
    /\ Paired(L, <<"realloc_buf", 0>>, <<"free_buf", 0>>)
    /\ Paired(L, <<"realloc_ents", 0>>, <<"free_ents", 0>>)
    /\ \A i \in 1..n :
          /\ Paired(L, <<"strdup", i>>, <<"free_name", i>>)
          /\ Paired(L, <<"fopen_src", i>>, <<"fclose_src", i>>)
\* The exit path the last create call took once its output was open.
ExitPath ==
    IF res.rc = TACOZ_OK THEN "success"
    ELSE IF res.failed = "fwrite_ghost" THEN "ghost"
    ELSE IF res.rc = TACOZ_ERR_PARAM THEN "null element"
    ELSE IF res.failed = "fclose" THEN "close"
    ELSE IF res.failed \in {"ftello_cd_start", "malloc_blk", "fwrite_cdfh",
                            "ftello_cd_end", "fwrite_z64e", "fwrite_loc",
                            "fwrite_eocd"}
    THEN "central directory"
    ELSE "add_file"
\* C20: on every exit path of tacozip_create and tacozip_create_multi after
\* the output has been opened, the output handle is closed exactly once,
\* and before anything is freed; the output buffer, the copy buffer, every
\* duplicated entry name and the entry list are each freed exactly once,
\* and every source handle that was opened is closed exactly once.
C20_CloseBeforeRelease ==
    (op.name \in {"create_multi", "create"} /\ res.failed # "fopen_out") =>
        LET L == LastCreate.w.log
        IN  Count(L, <<"fopen_out", 0>>) = 1 /\ Released(L, Len(srcs))
\* The write of the second file's data fails: its source handle is open,
\* the first file's name is in the entry list, both buffers are in use.
C20_Witness ==
    /\ op.name = "create_multi" /\ res.failed = "fwrite_data"
    /\ ExitPath = "add_file"
    /\ Len(res.ents) = 1 /\ Len(srcs) = 2
    /\ LET L == LastCreate.w.log
       IN  /\ Count(L, <<"fclose_src", 2>>) = 1
           /\ Count(L, <<"free_name", 1>>) = 1
           /\ Count(L, <<"free_out_buf", 0>>) = 1
           /\ Count(L, <<"free_buf", 0>>) = 1

\* A library call whose result create looks at failed in the last create
\* call: the fault fell on a call the handler made, and not on the malloc
\* of the output buffer (the second call) or on posix_fallocate (the
\* third), the two whose failure create ignores.
CheckedCallFailed ==
    /\ op.fault.k \in 1..LastCreate.w.calls
    /\ op.fault.k \notin {2, 3}
\* C21: create returns TACOZ_OK only if the ghost, every one of the N
\* entries (LFH, name, all data bytes, data descriptor), the N records of
\* the central directory, the ZIP64 EOCD, the locator and the classic EOCD
\* are in the file and the entry list holds N entries; whenever a write, a
\* read, an allocation, an ftello or the final close fails, create does
\* not return TACOZ_OK, whatever succeeds afterwards.
C21_SuccessMeansComplete ==
    op.name \in {"create_multi", "create"} =>
        /\ res.rc = TACOZ_OK =>
              /\ At(disk.bytes, 0, TACO_GHOST_SIZE)
                    = (IF op.name = "create"
                       THEN write_ghost_legacy(op.offsets[1], op.lengths[1])
                       ELSE write_ghost_multi(
                                arrays_to_meta_struct(op.offsets, op.lengths)))
              /\ LaidOut(disk.bytes, TACO_GHOST_SIZE)
              /\ Len(res.ents) = Len(srcs)
              /\ Len(CentralDirectory(disk.bytes)) = Len(srcs)
        /\ CheckedCallFailed => res.rc # TACOZ_OK
\* A create of two files that succeeds although posix_fallocate failed:
\* the one failure that may be followed by TACOZ_OK.
C21_Witness ==
    /\ Succeeded("create_multi")
    /\ op.fault.k = 3
    /\ Len(srcs) = 2 /\ Len(res.ents) = 2
    /\ LaidOut(disk.bytes, TACO_GHOST_SIZE)

\* C22: after a successful create (the source files are regular files that
\* stay as they are during the call, every name is at most 65535 bytes
\* long) the size try_posix_fallocate_estimate computes for the
\* reservation is the number of bytes create has written, the file is as
\* long as that, and its last 22 bytes are the classic EOCD.
C22_EstimateIsExact ==
    CreateSucceeded =>
        LET written == Len(LastCreate.w.out)
        IN  /\ try_posix_fallocate_estimate(srcs, ArcNames(arcs), Len(srcs))
                  = written
            /\ Len(disk.bytes) = written
            /\ At(disk.bytes, Len(disk.bytes) - 22, 22) = cd_eocd
\* Two files, one of them empty, in an archive of 538 bytes.
C22_Witness ==
    /\ Succeeded("create_multi")
    /\ srcs = <<"empty", "abcd">>
    /\ try_posix_fallocate_estimate(srcs, ArcNames(arcs), Len(srcs))
          = Len(disk.bytes)
    /\ At(disk.bytes, Len(disk.bytes) - 22, 4) = le32(SIG_EOCD)
============================================================================
